---- MODULE Spec2Model ----
(***************************************************************************)
(* Node identity lifecycle (nodeImpl.register / init / close) and the      *)
(* run-once construction of the security helper (getSecHelper) of the      *)
(* Hyperledger Fabric 0.6 peer.                                            *)
(*                                                                         *)
(* A call of register or init is a sequence of steps, one per statement    *)
(* that reads or writes the node; pc[t] is the position of thread t in its *)
(* call.  Spec runs the calls one after another, SpecConc lets the threads *)
(* interleave, SpecSec runs the callers of getSecHelper.                   *)
(***************************************************************************)
EXTENDS Integers, Sequences, FiniteSets, TLC

\* Number of threads that call into one node.
NumThreads == 2

\* Cap on the number of CA enrollments / crypto-engine initialisations that
\* the sequential specification starts.
MaxCount == 2

\* Number of callers of getSecHelper.
NumCallers == 2

\* Spare capacity that the slice returned by mac.Sum(nil) may have.
MaxSpare == 2

\* Longest body of a buffer passed to a primitive, and longest run of
\* padding-like bytes after it (besides the runs of about one block).
MaxBody == 17

MaxTail == 2

\* Cap on the number of changes made to the configuration from outside serve.
MaxSets == 2

Threads == 1..NumThreads

Callers == 1..NumCallers

\* NodeType (nodeImpl.eType).
NodeTypes == {"NodeClient", "NodePeer", "NodeValidator"}

\* regFunc / initFunc: nil, or a function.
Hooks == {"nil", "func"}

VARIABLES
    isRegistered,     \* nodeImpl.isRegistered
    isInitialized,    \* nodeImpl.isInitialized
    eType,            \* nodeImpl.eType
    ksInit,           \* the key store of the node has been initialised (node.ks # nil)
    ksClosed,         \* node.ks.close() has been called on the current key store
    enrollCert,       \* enrollment material in the key store: 0 absent, else the
                      \* number of the enrollment that stored it
    caCalls,          \* number of nodeRegister (registerCryptoEngine) invocations
    engineCalls,      \* number of nodeInit (initCryptoEngine) invocations
    engineBuilt,      \* number of successful crypto-engine constructions
    hookCalls,        \* number of regFunc / initFunc invocations
    closed,           \* node.close() has been called
    pc,               \* pc[t]: position of thread t in its call
    op,               \* op[t]: "none", "register", "init" or "close"
    hook,             \* hook[t]: the regFunc / initFunc argument of the call
    err,              \* err[t]: the local err of the call, then its return value
    called,           \* called[t]: the operations thread t has called (SpecConc)
    securityEnabled,  \* peer.securityEnabled, the copy of core.SecurityEnabled()
    validatorEnabled, \* peer.validatorEnabled
    onceDone,         \* sync.Once: the function has run to completion
    onceM,            \* sync.Once: the caller inside Do, 0 when none
    spc,              \* spc[c]: position of caller c in getSecHelper
    secHelper,        \* secHelper[c]: the local secHelper of caller c
    secErr,           \* secErr[c]: the local err of caller c
    cryptoLog,        \* the crypto.Register* / crypto.Init* calls made, in order
    aKey,             \* primitives: the key argument of the calls
    aMsg,             \* primitives: the buffer passed to the first call
    aBuf,             \* primitives: the buffer returned by the last call (nil: <<>>)
    aErr,             \* primitives: the error of the last call, "panic" when it aborted
    aHist,            \* primitives: the functions called so far, in order
    aArg,             \* primitives: the caller's argument buffer after the last call
    aIV,              \* primitives: the IV drawn by the last encrypting call
    aTrunc,           \* primitives: the truncation argument of the last call
    viper,            \* the configuration: viper[key] is the value under key
    chaincodeDevMode, \* the --peer-chaincodedev flag
    configurationCached,          \* peer.configurationCached
    localAddress,                 \* peer.localAddress ("" is <<>>)
    localAddressError,            \* peer.localAddressError
    peerEndpoint,                 \* peer.peerEndpoint: <<>> is nil, <<e>> points to e
    peerEndpointError,            \* peer.peerEndpointError
    syncStateSnapshotChannelSize, \* peer.syncStateSnapshotChannelSize
    syncStateDeltasChannelSize,   \* peer.syncStateDeltasChannelSize
    syncBlocksChannelSize,        \* peer.syncBlocksChannelSize
    commConfigurationCached,      \* comm.configurationCached
    tlsEnabled,                   \* comm.tlsEnabled
    servePc,          \* position of serve
    serveErr,         \* the error serve returns
    servePeerEndpoint, \* the local peerEndpoint of serve
    lis,              \* the addresses serve listens on, in order
    got,              \* the getter called by the last step and what it returned
    nSet,             \* number of configuration changes made from outside serve
    cachePc,          \* position of the goroutine that runs CacheConfiguration again
    ehubGrpcServer,   \* serve: the event hub server, "nil" when there is none
    goroutines,       \* serve: the servers started with a go statement at its end
    sigs,             \* serve: the channel sigs (capacity 1)
    serve,            \* serve: the channel serve, as the senders blocked on it
    sigPc,            \* position of the goroutine that waits for a signal
    grpcPc,           \* position of the goroutine that runs grpcServer.Serve
    grpcErr,          \* grpcErr of that goroutine
    firstEvent,       \* which came first: the signal or the exit of the gRPC server
    firstAt           \* the position of serve when it came

nodeVars == <<isRegistered, isInitialized, eType, ksInit, ksClosed, enrollCert,
              caCalls, engineCalls, engineBuilt, hookCalls, closed>>

threadVars == <<pc, op, hook, err>>

secVars == <<securityEnabled, validatorEnabled, onceDone, onceM, spc, secHelper,
             secErr, cryptoLog>>

nodeSide == <<nodeVars, threadVars, called>>

primVars == <<aKey, aMsg, aBuf, aErr, aHist, aArg, aIV, aTrunc>>

helperVars == <<onceDone, onceM, spc, secHelper, secErr, cryptoLog>>

peerCacheVars == <<configurationCached, localAddress, localAddressError,
                   peerEndpoint, peerEndpointError, syncStateSnapshotChannelSize,
                   syncStateDeltasChannelSize, syncBlocksChannelSize,
                   validatorEnabled, securityEnabled>>

commCacheVars == <<commConfigurationCached, tlsEnabled>>

serveVars == <<servePc, serveErr, servePeerEndpoint, lis>>

\* The goroutines that run beside serve once it listens.
waitVars == <<ehubGrpcServer, goroutines, sigs, serve, sigPc, grpcPc, grpcErr,
              firstEvent, firstAt>>

runVars == <<cachePc, waitVars>>

\* The configuration side but for validatorEnabled and securityEnabled, which
\* getSecHelper reads.
confVars == <<viper, chaincodeDevMode, configurationCached, localAddress,
              localAddressError, peerEndpoint, peerEndpointError,
              syncStateSnapshotChannelSize, syncStateDeltasChannelSize,
              syncBlocksChannelSize, commCacheVars, serveVars, got, nSet,
              runVars>>

vars == <<nodeSide, secVars, primVars, confVars>>

----------------------------------------------------------------------------
(* Collaborators of nodeImpl that the lifecycle calls: the outcomes each   *)
(* can produce.                                                            *)

\* node.initConfiguration(name)
InitConfigurationOutcomes == {"nil", "ErrConf"}

\* node.initKeyStore(pwd): initialises the store, or opens the store that is
\* there; on a store that is already initialised it may also report
\* ErrKeyStoreAlreadyInitialized.
InitKeyStoreOutcomes ==
    IF ksInit THEN {"nil", "ErrKeyStoreAlreadyInitialized", "ErrKeyStore"}
    ELSE {"nil", "ErrKeyStore"}

\* node.registerCryptoEngine(enrollID, enrollPWD): enrolls with the CA and
\* persists the enrollment material, which is write-once.
RegisterCryptoEngineOutcomes ==
    IF enrollCert = 0 THEN {"nil", "ErrCA"} ELSE {"ErrCA", "ErrWriteOnce"}

\* node.initCryptoEngine(): loads the enrollment material and constructs the
\* crypto engine.
InitCryptoEngineOutcomes ==
    IF enrollCert = 0 THEN {"ErrEnrollmentAbsent"} ELSE {"nil", "ErrEngine"}

\* regFunc / initFunc, when not nil.
HookOutcomes == {"nil", "ErrHook"}

\* node.ks.close()
KsCloseOutcomes == {"nil", "ErrClose"}

----------------------------------------------------------------------------
(* Control flow of a call.                                                 *)

Goto(t, l) ==
    /\ pc' = [pc EXCEPT ![t] = l]
    /\ UNCHANGED err

Return(t, e) ==
    /\ pc' = [pc EXCEPT ![t] = "done"]
    /\ err' = [err EXCEPT ![t] = e]

Enter(t, o, h) ==
    /\ pc[t] = "idle"
    /\ pc' = [pc EXCEPT ![t] = "conf"]
    /\ op' = [op EXCEPT ![t] = o]
    /\ hook' = [hook EXCEPT ![t] = h]
    /\ err' = [err EXCEPT ![t] = "nil"]

At(t, o, l) == op[t] = o /\ pc[t] = l

----------------------------------------------------------------------------
(* nodeImpl.register                                                       *)

\* node.eType = eType
RegEnter(t, ty, h) ==
    /\ Enter(t, "register", h)
    /\ eType' = ty
    /\ UNCHANGED <<isRegistered, isInitialized, ksInit, ksClosed, enrollCert,
                   caCalls, engineCalls, engineBuilt, hookCalls, closed,
                   secVars, primVars, confVars>>

\* if err := node.initConfiguration(name); err != nil { return err }
RegInitConfiguration(t) ==
    /\ At(t, "register", "conf")
    /\ \E r \in InitConfigurationOutcomes :
          IF r # "nil" THEN Return(t, r) ELSE Goto(t, "ks")
    /\ UNCHANGED <<nodeVars, op, hook, called, secVars, primVars, confVars>>

\* err := node.initKeyStore(pwd)
RegInitKeyStore(t) ==
    /\ At(t, "register", "ks")
    /\ \E r \in InitKeyStoreOutcomes :
          /\ err' = [err EXCEPT ![t] = r]
          /\ ksInit' = (ksInit \/ r = "nil")
          /\ ksClosed' = (ksClosed /\ r # "nil")
    /\ pc' = [pc EXCEPT ![t] = "kserr"]
    /\ UNCHANGED <<isRegistered, isInitialized, eType, enrollCert, caCalls,
                   engineCalls, engineBuilt, hookCalls, op, hook, called,
                   closed, secVars, primVars, confVars>>

\* A variant of RegKeyStoreCheck that logs ErrKeyStoreAlreadyInitialized and
\* goes on to the lifecycle checks.
RegKeyStoreCheckNonFatal(t) ==
    /\ At(t, "register", "kserr")
    /\ IF err[t] \notin {"nil", "ErrKeyStoreAlreadyInitialized"}
       THEN Return(t, err[t]) ELSE Goto(t, "check")
    /\ UNCHANGED <<nodeVars, op, hook, called, secVars, primVars, confVars>>

\* if err != nil { if err == utils.ErrKeyStoreAlreadyInitialized { log }
\* else { log }; return err }
RegKeyStoreCheck(t) ==
    /\ At(t, "register", "kserr")
    /\ IF err[t] # "nil" THEN Return(t, err[t]) ELSE Goto(t, "check")
    /\ UNCHANGED <<nodeVars, op, hook, called, secVars, primVars, confVars>>

\* if node.IsRegistered() { return utils.ErrAlreadyRegistered }
\* if node.IsInitialized() { return utils.ErrAlreadyInitialized }
RegCheckFlags(t) ==
    /\ At(t, "register", "check")
    /\ IF isRegistered THEN Return(t, "ErrAlreadyRegistered")
       ELSE IF isInitialized THEN Return(t, "ErrAlreadyInitialized")
       ELSE Goto(t, "engine")
    /\ UNCHANGED <<nodeVars, op, hook, called, secVars, primVars, confVars>>

\* A variant of RegNodeRegister that marks the node registered as soon as
\* the enrollment has succeeded, before the hook has run.
RegNodeRegisterSetsFlag(t) ==
    /\ At(t, "register", "engine")
    /\ caCalls' = caCalls + 1
    /\ \E r \in RegisterCryptoEngineOutcomes :
          IF r = "nil"
          THEN /\ enrollCert' = caCalls + 1
               /\ isRegistered' = TRUE
               /\ Goto(t, "hook")
          ELSE /\ UNCHANGED <<enrollCert, isRegistered>>
               /\ Return(t, r)
    /\ UNCHANGED <<isInitialized, eType, ksInit, ksClosed, engineCalls,
                   engineBuilt, hookCalls, op, hook, called, closed, secVars,
                   primVars, confVars>>

\* err = node.nodeRegister(...); if err != nil { return err }
RegNodeRegister(t) ==
    /\ At(t, "register", "engine")
    /\ caCalls' = caCalls + 1
    /\ \E r \in RegisterCryptoEngineOutcomes :
          IF r = "nil"
          THEN /\ enrollCert' = caCalls + 1
               /\ Goto(t, "hook")
          ELSE /\ UNCHANGED enrollCert
               /\ Return(t, r)
    /\ UNCHANGED <<isRegistered, isInitialized, eType, ksInit, ksClosed,
                   engineCalls, engineBuilt, hookCalls, op, hook, called,
                   closed, secVars, primVars, confVars>>

\* A variant of RegHook that calls regFunc without the nil test.
RegHookCallsNil(t) ==
    /\ At(t, "register", "hook")
    /\ hookCalls' = hookCalls + 1
    /\ \E r \in HookOutcomes :
          IF r # "nil" THEN Return(t, r) ELSE Goto(t, "set")
    /\ UNCHANGED <<isRegistered, isInitialized, eType, ksInit, ksClosed,
                   enrollCert, caCalls, engineCalls, engineBuilt, op, hook,
                   called, closed, secVars, primVars, confVars>>

\* if regFunc != nil { err = regFunc(...); if err != nil { return err } }
RegHook(t) ==
    /\ At(t, "register", "hook")
    /\ IF hook[t] = "nil"
       THEN /\ Goto(t, "set")
            /\ UNCHANGED hookCalls
       ELSE /\ hookCalls' = hookCalls + 1
            /\ \E r \in HookOutcomes :
                  IF r # "nil" THEN Return(t, r) ELSE Goto(t, "set")
    /\ UNCHANGED <<isRegistered, isInitialized, eType, ksInit, ksClosed,
                   enrollCert, caCalls, engineCalls, engineBuilt, op, hook,
                   called, closed, secVars, primVars, confVars>>

\* node.setRegistered(); return nil
RegSetRegistered(t) ==
    /\ At(t, "register", "set")
    /\ isRegistered' = TRUE
    /\ Return(t, "nil")
    /\ UNCHANGED <<isInitialized, eType, ksInit, ksClosed, enrollCert, caCalls,
                   engineCalls, engineBuilt, hookCalls, op, hook, called,
                   closed, secVars, primVars, confVars>>

----------------------------------------------------------------------------
(* nodeImpl.init                                                           *)

\* node.eType = eType
InitEnter(t, ty, h) ==
    /\ Enter(t, "init", h)
    /\ eType' = ty
    /\ UNCHANGED <<isRegistered, isInitialized, ksInit, ksClosed, enrollCert,
                   caCalls, engineCalls, engineBuilt, hookCalls, closed,
                   secVars, primVars, confVars>>

\* if err := node.initConfiguration(name); err != nil { return err }
InitInitConfiguration(t) ==
    /\ At(t, "init", "conf")
    /\ \E r \in InitConfigurationOutcomes :
          IF r # "nil" THEN Return(t, r) ELSE Goto(t, "ks")
    /\ UNCHANGED <<nodeVars, op, hook, called, secVars, primVars, confVars>>

\* err := node.initKeyStore(pwd)
InitInitKeyStore(t) ==
    /\ At(t, "init", "ks")
    /\ \E r \in InitKeyStoreOutcomes :
          /\ err' = [err EXCEPT ![t] = r]
          /\ ksInit' = (ksInit \/ r = "nil")
          /\ ksClosed' = (ksClosed /\ r # "nil")
    /\ pc' = [pc EXCEPT ![t] = "kserr"]
    /\ UNCHANGED <<isRegistered, isInitialized, eType, enrollCert, caCalls,
                   engineCalls, engineBuilt, hookCalls, op, hook, called,
                   closed, secVars, primVars, confVars>>

\* if err != nil { ...log...; return err }
InitKeyStoreCheck(t) ==
    /\ At(t, "init", "kserr")
    /\ IF err[t] # "nil" THEN Return(t, err[t]) ELSE Goto(t, "check")
    /\ UNCHANGED <<nodeVars, op, hook, called, secVars, primVars, confVars>>

\* A variant of InitCheckFlag without the IsInitialized check.
InitCheckFlagSkipped(t) ==
    /\ At(t, "init", "check")
    /\ Goto(t, "engine")
    /\ UNCHANGED <<nodeVars, op, hook, called, secVars, primVars, confVars>>

\* A variant of InitCheckFlag that marks the node initialized before the
\* crypto engine is initialised.
InitCheckFlagSetsEarly(t) ==
    /\ At(t, "init", "check")
    /\ IF isInitialized
       THEN /\ Return(t, "ErrAlreadyInitialized")
            /\ UNCHANGED isInitialized
       ELSE /\ isInitialized' = TRUE
            /\ Goto(t, "engine")
    /\ UNCHANGED <<isRegistered, eType, ksInit, ksClosed, enrollCert, caCalls,
                   engineCalls, engineBuilt, hookCalls, op, hook, called,
                   closed, secVars, primVars, confVars>>

\* if node.IsInitialized() { return utils.ErrAlreadyInitialized }
InitCheckFlag(t) ==
    /\ At(t, "init", "check")
    /\ IF isInitialized THEN Return(t, "ErrAlreadyInitialized")
       ELSE Goto(t, "engine")
    /\ UNCHANGED <<nodeVars, op, hook, called, secVars, primVars, confVars>>

\* A variant of InitNodeInit that drops the error of nodeInit.
InitNodeInitIgnoresErr(t) ==
    /\ At(t, "init", "engine")
    /\ engineCalls' = engineCalls + 1
    /\ \E r \in InitCryptoEngineOutcomes :
          engineBuilt' = IF r = "nil" THEN engineBuilt + 1 ELSE engineBuilt
    /\ Goto(t, "hook")
    /\ UNCHANGED <<isRegistered, isInitialized, eType, ksInit, ksClosed,
                   enrollCert, caCalls, hookCalls, op, hook, called, closed,
                   secVars, primVars, confVars>>

\* err = node.nodeInit(...); if err != nil { return err }
InitNodeInit(t) ==
    /\ At(t, "init", "engine")
    /\ engineCalls' = engineCalls + 1
    /\ \E r \in InitCryptoEngineOutcomes :
          IF r = "nil"
          THEN /\ engineBuilt' = engineBuilt + 1
               /\ Goto(t, "hook")
          ELSE /\ UNCHANGED engineBuilt
               /\ Return(t, r)
    /\ UNCHANGED <<isRegistered, isInitialized, eType, ksInit, ksClosed,
                   enrollCert, caCalls, hookCalls, op, hook, called, closed,
                   secVars, primVars, confVars>>

\* if initFunc != nil { err = initFunc(...); if err != nil { return err } }
InitHook(t) ==
    /\ At(t, "init", "hook")
    /\ IF hook[t] = "nil"
       THEN /\ Goto(t, "set")
            /\ UNCHANGED hookCalls
       ELSE /\ hookCalls' = hookCalls + 1
            /\ \E r \in HookOutcomes :
                  IF r # "nil" THEN Return(t, r) ELSE Goto(t, "set")
    /\ UNCHANGED <<isRegistered, isInitialized, eType, ksInit, ksClosed,
                   enrollCert, caCalls, engineCalls, engineBuilt, op, hook,
                   called, closed, secVars, primVars, confVars>>

\* node.setInitialized(); return nil
InitSetInitialized(t) ==
    /\ At(t, "init", "set")
    /\ isInitialized' = TRUE
    /\ Return(t, "nil")
    /\ UNCHANGED <<isRegistered, eType, ksInit, ksClosed, enrollCert, caCalls,
                   engineCalls, engineBuilt, hookCalls, op, hook, called,
                   closed, secVars, primVars, confVars>>

----------------------------------------------------------------------------
(* nodeImpl.close                                                          *)

\* A variant of Close that resets the lifecycle flags of the node.
CloseResetsFlags(t) ==
    /\ pc[t] = "idle"
    /\ op' = [op EXCEPT ![t] = "close"]
    /\ closed' = TRUE
    /\ isRegistered' = FALSE
    /\ isInitialized' = FALSE
    /\ IF ksInit
       THEN /\ ksClosed' = TRUE
            /\ \E r \in KsCloseOutcomes : Return(t, r)
       ELSE /\ UNCHANGED ksClosed
            /\ Return(t, "nil")
    /\ UNCHANGED <<eType, ksInit, enrollCert, caCalls, engineCalls, engineBuilt,
                   hookCalls, hook, secVars, primVars, confVars>>

\* if node.ks != nil { err = node.ks.close() }; return err
Close(t) ==
    /\ pc[t] = "idle"
    /\ op' = [op EXCEPT ![t] = "close"]
    /\ closed' = TRUE
    /\ IF ksInit
       THEN /\ ksClosed' = TRUE
            /\ \E r \in KsCloseOutcomes : Return(t, r)
       ELSE /\ UNCHANGED ksClosed
            /\ Return(t, "nil")
    /\ UNCHANGED <<isRegistered, isInitialized, eType, ksInit, enrollCert,
                   caCalls, engineCalls, engineBuilt, hookCalls, hook,
                   secVars, primVars, confVars>>

\* The caller has the result of the call; the thread is free for another.
Finish(t) ==
    /\ pc[t] = "done"
    /\ pc' = [pc EXCEPT ![t] = "idle"]
    /\ op' = [op EXCEPT ![t] = "none"]
    /\ hook' = [hook EXCEPT ![t] = "nil"]
    /\ err' = [err EXCEPT ![t] = "nil"]
    /\ UNCHANGED <<nodeVars, called, secVars, primVars, confVars>>

\* The steps of a call that is under way.
Step(t) ==
    \/ RegInitConfiguration(t)
    \/ RegInitKeyStore(t)
    \/ RegKeyStoreCheck(t)
    \/ RegCheckFlags(t)
    \/ RegNodeRegister(t)
    \/ RegHook(t)
    \/ RegSetRegistered(t)
    \/ InitInitConfiguration(t)
    \/ InitInitKeyStore(t)
    \/ InitKeyStoreCheck(t)
    \/ InitCheckFlag(t)
    \/ InitNodeInit(t)
    \/ InitHook(t)
    \/ InitSetInitialized(t)
    \/ Finish(t)

----------------------------------------------------------------------------
(* getSecHelper: var once sync.Once; once.Do(func() { ... }).              *)

\* var secHelper crypto.Peer; var err error
GetSecHelperEnter(c) ==
    /\ spc[c] = "idle"
    /\ spc' = [spc EXCEPT ![c] = "once"]
    /\ secHelper' = [secHelper EXCEPT ![c] = "nil"]
    /\ secErr' = [secErr EXCEPT ![c] = "nil"]
    /\ UNCHANGED <<nodeSide, primVars, confVars>>
    /\ UNCHANGED <<securityEnabled, validatorEnabled, onceDone, onceM,
                   cryptoLog>>

\* A variant of OnceDo that does not remember that f has run: every caller
\* runs f, one at a time.
OnceDoForgets(c) ==
    /\ spc[c] = "once"
    /\ onceM = 0
    /\ onceM' = c
    /\ spc' = [spc EXCEPT ![c] = "f"]
    /\ UNCHANGED <<nodeSide, primVars, confVars>>
    /\ UNCHANGED <<securityEnabled, validatorEnabled, onceDone, secHelper,
                   secErr, cryptoLog>>

\* once.Do(f): returns at once when f has run; otherwise runs f, with every
\* other caller waiting until f has returned.
OnceDo(c) ==
    /\ spc[c] = "once"
    /\ IF onceDone
       THEN /\ spc' = [spc EXCEPT ![c] = "ret"]
            /\ UNCHANGED onceM
       ELSE /\ onceM = 0
            /\ onceM' = c
            /\ spc' = [spc EXCEPT ![c] = "f"]
    /\ UNCHANGED <<nodeSide, primVars, confVars>>
    /\ UNCHANGED <<securityEnabled, validatorEnabled, onceDone, secHelper,
                   secErr, cryptoLog>>

\* if core.SecurityEnabled() { ... }: nothing to do when security is off
SecDisabled(c) ==
    /\ spc[c] = "f"
    /\ ~securityEnabled
    /\ spc' = [spc EXCEPT ![c] = "unlock"]
    /\ UNCHANGED <<nodeSide, primVars, confVars>>
    /\ UNCHANGED <<securityEnabled, validatorEnabled, onceDone, onceM,
                   secHelper, secErr, cryptoLog>>

\* if err = crypto.RegisterValidator(...); nil != err { return }
\* (crypto.RegisterPeer when the peer is no validator)
SecRegister(c) ==
    /\ spc[c] = "f"
    /\ securityEnabled
    /\ cryptoLog' = Append(cryptoLog,
                       IF validatorEnabled THEN "RegisterValidator" ELSE "RegisterPeer")
    /\ \E r \in {"nil", "ErrRegister"} :
          /\ secErr' = [secErr EXCEPT ![c] = r]
          /\ spc' = [spc EXCEPT ![c] = IF r # "nil" THEN "unlock" ELSE "init"]
    /\ UNCHANGED <<nodeSide, primVars, confVars>>
    /\ UNCHANGED <<securityEnabled, validatorEnabled, onceDone, onceM,
                   secHelper>>

\* A variant of SecInitialize that calls crypto.InitPeer whatever the role.
SecInitializeAsPeer(c) ==
    /\ spc[c] = "init"
    /\ cryptoLog' = Append(cryptoLog, "InitPeer")
    /\ \E r \in {"nil", "ErrInit"} :
          /\ secErr' = [secErr EXCEPT ![c] = r]
          /\ secHelper' = [secHelper EXCEPT ![c] = IF r = "nil" THEN "peer" ELSE "nil"]
    /\ spc' = [spc EXCEPT ![c] = "unlock"]
    /\ UNCHANGED <<nodeSide, primVars, confVars>>
    /\ UNCHANGED <<securityEnabled, validatorEnabled, onceDone, onceM>>

\* secHelper, err = crypto.InitValidator(enrollID, nil)
\* (crypto.InitPeer when the peer is no validator)
SecInitialize(c) ==
    /\ spc[c] = "init"
    /\ cryptoLog' = Append(cryptoLog,
                       IF validatorEnabled THEN "InitValidator" ELSE "InitPeer")
    /\ \E r \in {"nil", "ErrInit"} :
          /\ secErr' = [secErr EXCEPT ![c] = r]
          /\ secHelper' = [secHelper EXCEPT ![c] = IF r = "nil" THEN "peer" ELSE "nil"]
    /\ spc' = [spc EXCEPT ![c] = "unlock"]
    /\ UNCHANGED <<nodeSide, primVars, confVars>>
    /\ UNCHANGED <<securityEnabled, validatorEnabled, onceDone, onceM>>

\* f has returned: once is done, the waiting callers go on.
OnceUnlock(c) ==
    /\ spc[c] = "unlock"
    /\ onceDone' = TRUE
    /\ onceM' = 0
    /\ spc' = [spc EXCEPT ![c] = "ret"]
    /\ UNCHANGED <<nodeSide, primVars, confVars>>
    /\ UNCHANGED <<securityEnabled, validatorEnabled, secHelper, secErr,
                   cryptoLog>>

\* return secHelper, err
GetSecHelperReturn(c) ==
    /\ spc[c] = "ret"
    /\ spc' = [spc EXCEPT ![c] = "done"]
    /\ UNCHANGED <<nodeSide, primVars, confVars>>
    /\ UNCHANGED <<securityEnabled, validatorEnabled, onceDone, onceM,
                   secHelper, secErr, cryptoLog>>

\* The caller has the result; it may call again.
SecFinish(c) ==
    /\ spc[c] = "done"
    /\ spc' = [spc EXCEPT ![c] = "idle"]
    /\ secHelper' = [secHelper EXCEPT ![c] = "nil"]
    /\ secErr' = [secErr EXCEPT ![c] = "nil"]
    /\ UNCHANGED <<nodeSide, primVars, confVars>>
    /\ UNCHANGED <<securityEnabled, validatorEnabled, onceDone, onceM,
                   cryptoLog>>

----------------------------------------------------------------------------
(* primitives (aes.go): PKCS7 padding and AES in CBC mode.  A byte buffer  *)
(* is a sequence over 0..255; a call returns [out, err], where err is      *)
(* "nil", the name of the error returned, or "panic" when the call aborts  *)
(* with a run-time panic.                                                  *)

\* aes.BlockSize
BlockSize == 16

\* The values of a byte.
ByteRange == 256

\* bytes.Repeat([]byte{b}, n)
Repeat(b, n) == [i \in 1..n |-> b]

\* The result of a call: a buffer and no error, or no buffer and an error.
Ok(out) == [out |-> out, err |-> "nil"]

Fail(e) == [out |-> <<>>, err |-> e]

\* A variant of PKCS7Padding that appends nothing to a buffer whose length
\* is a multiple of the block size.
PKCS7PaddingNoFullBlock(src) ==
    LET padding == (BlockSize - (Len(src) % BlockSize)) % BlockSize
        padtext == Repeat(padding % ByteRange, padding)
    IN  src \o padtext

\* func PKCS7Padding(src []byte) []byte
PKCS7Padding(src) ==
    LET padding == BlockSize - (Len(src) % BlockSize)
        padtext == Repeat(padding % ByteRange, padding)
    IN  src \o padtext

\* A variant of PKCS7UnPadding that takes a full block of padding for
\* invalid.
PKCS7UnPaddingRejectsFullBlock(src) ==
    LET length == Len(src)
    IN  IF length = 0 THEN Fail("panic")
        ELSE LET unpadding == src[length]
             IN  IF unpadding >= BlockSize \/ unpadding = 0
                 THEN Fail("ErrInvalidPadding")
                 ELSE IF length - unpadding < 0 THEN Fail("panic")
                 ELSE LET pad == SubSeq(src, length - unpadding + 1, length)
                      IN  IF \E i \in 1..unpadding : pad[i] # unpadding % ByteRange
                          THEN Fail("ErrInvalidPadding")
                          ELSE Ok(SubSeq(src, 1, length - unpadding))

\* func PKCS7UnPadding(src []byte) ([]byte, error)
\* src[length-1] panics on an empty src, src[len(src)-unpadding:] panics when
\* unpadding exceeds len(src).
PKCS7UnPadding(src) ==
    LET length == Len(src)
    IN  IF length = 0 THEN Fail("panic")
        ELSE LET unpadding == src[length]
             IN  IF unpadding > BlockSize \/ unpadding = 0
                 THEN Fail("ErrInvalidPadding")
                 ELSE IF length - unpadding < 0 THEN Fail("panic")
                 ELSE LET pad == SubSeq(src, length - unpadding + 1, length)
                      IN  IF \E i \in 1..unpadding : pad[i] # unpadding % ByteRange
                          THEN Fail("ErrInvalidPadding")
                          ELSE Ok(SubSeq(src, 1, length - unpadding))

\* Key lengths that aes.NewCipher accepts (AES-128, AES-192, AES-256).
KeySizes == {16, 24, 32}

\* Exclusive or of two bytes, bit by bit.
RECURSIVE XorBits(_, _, _)
XorBits(a, b, n) ==
    IF n = 0 THEN 0
    ELSE ((a + b) % 2) + 2 * XorBits(a \div 2, b \div 2, n - 1)

Xor(a, b) == XorBits(a, b, 8)

\* block, err := aes.NewCipher(key): the error for a key of a wrong length,
\* else a keyed permutation of the blocks, here the byte-wise addition of a
\* value derived from the key.
NewCipher(key) ==
    IF Len(key) \in KeySizes
    THEN [err |-> "nil", k |-> (key[1] + Len(key)) % ByteRange]
    ELSE [err |-> "ErrKeySize", k |-> 0]

\* block.Encrypt / block.Decrypt on one block
BlockEncrypt(k, b) == [i \in 1..BlockSize |-> (b[i] + k) % ByteRange]

\* A variant of BlockDecrypt that is not the inverse of BlockEncrypt.
BlockDecryptOffByOne(k, b) ==
    [i \in 1..BlockSize |-> (b[i] + ByteRange - k + 1) % ByteRange]

BlockDecrypt(k, b) == [i \in 1..BlockSize |-> (b[i] + ByteRange - k) % ByteRange]

XorBlock(x, y) == [i \in 1..BlockSize |-> Xor(x[i], y[i])]

\* cipher.NewCBCEncrypter(block, iv).CryptBlocks(dst, src): each plaintext
\* block is xored with the previous ciphertext block (the IV for the first)
\* and encrypted.
RECURSIVE CBCEncrypterCryptBlocks(_, _, _)
CBCEncrypterCryptBlocks(k, prev, src) ==
    IF Len(src) = 0 THEN <<>>
    ELSE LET c == BlockEncrypt(k, XorBlock(SubSeq(src, 1, BlockSize), prev))
         IN  c \o CBCEncrypterCryptBlocks(k, c, SubSeq(src, BlockSize + 1, Len(src)))

\* A variant of CBCDecrypterCryptBlocks that xors every block with the IV.
RECURSIVE CBCDecrypterNoChaining(_, _, _)
CBCDecrypterNoChaining(k, prev, src) ==
    IF Len(src) = 0 THEN <<>>
    ELSE LET c == SubSeq(src, 1, BlockSize)
         IN  XorBlock(BlockDecrypt(k, c), prev)
                \o CBCDecrypterNoChaining(k, prev, SubSeq(src, BlockSize + 1, Len(src)))

\* cipher.NewCBCDecrypter(block, iv).CryptBlocks(dst, src): each ciphertext
\* block is decrypted and xored with the previous ciphertext block (the IV
\* for the first).
RECURSIVE CBCDecrypterCryptBlocks(_, _, _)
CBCDecrypterCryptBlocks(k, prev, src) ==
    IF Len(src) = 0 THEN <<>>
    ELSE LET c == SubSeq(src, 1, BlockSize)
         IN  XorBlock(BlockDecrypt(k, c), prev)
                \o CBCDecrypterCryptBlocks(k, c, SubSeq(src, BlockSize + 1, Len(src)))

\* io.ReadFull(rand.Reader, iv): a block of random bytes, or an error.
RandOutcomes ==
    { [iv |-> Repeat(0, BlockSize), err |-> "nil"],
      [iv |-> [i \in 1..BlockSize |-> (i * 37) % ByteRange], err |-> "nil"],
      [iv |-> <<>>, err |-> "ErrRand"] }

\* A variant of CBCEncrypt that encrypts under an IV of zeros and prepends
\* the IV it drew.
CBCEncryptZeroIV(key, s, rnd) ==
    IF Len(s) % BlockSize # 0 THEN Fail("ErrPlaintextNotMultiple")
    ELSE LET block == NewCipher(key)
         IN  IF block.err # "nil" THEN Fail(block.err)
             ELSE IF rnd.err # "nil" THEN Fail(rnd.err)
             ELSE Ok(rnd.iv \o CBCEncrypterCryptBlocks(block.k,
                                                       Repeat(0, BlockSize), s))

\* func CBCEncrypt(key, s []byte) ([]byte, error); rnd is the outcome of the
\* IV draw.
CBCEncrypt(key, s, rnd) ==
    IF Len(s) % BlockSize # 0 THEN Fail("ErrPlaintextNotMultiple")
    ELSE LET block == NewCipher(key)
         IN  IF block.err # "nil" THEN Fail(block.err)
             ELSE IF rnd.err # "nil" THEN Fail(rnd.err)
             ELSE Ok(rnd.iv \o CBCEncrypterCryptBlocks(block.k, rnd.iv, s))

\* A variant of CBCDecrypt that takes a ciphertext of the IV alone for too
\* short.
CBCDecryptNeedsBlock(key, src) ==
    LET block == NewCipher(key)
    IN  IF block.err # "nil" THEN Fail(block.err)
        ELSE IF Len(src) <= BlockSize THEN Fail("ErrCiphertextTooShort")
        ELSE LET iv == SubSeq(src, 1, BlockSize)
                 rest == SubSeq(src, BlockSize + 1, Len(src))
             IN  IF Len(rest) % BlockSize # 0
                 THEN Fail("ErrCiphertextNotMultiple")
                 ELSE Ok(CBCDecrypterCryptBlocks(block.k, iv, rest))

\* func CBCDecrypt(key, src []byte) ([]byte, error)
CBCDecrypt(key, src) ==
    LET block == NewCipher(key)
    IN  IF block.err # "nil" THEN Fail(block.err)
        ELSE IF Len(src) < BlockSize THEN Fail("ErrCiphertextTooShort")
        ELSE LET iv == SubSeq(src, 1, BlockSize)
                 rest == SubSeq(src, BlockSize + 1, Len(src))
             IN  IF Len(rest) % BlockSize # 0
                 THEN Fail("ErrCiphertextNotMultiple")
                 ELSE Ok(CBCDecrypterCryptBlocks(block.k, iv, rest))

\* The caller's src after CBCDecrypt(key, src): src = src[aes.BlockSize:];
\* mode.CryptBlocks(src, src) decrypts in place, in the caller's array.
CBCDecryptSrc(key, src) ==
    LET r == CBCDecrypt(key, src)
    IN  IF r.err = "nil" THEN SubSeq(src, 1, BlockSize) \o r.out ELSE src

\* func CBCPKCS7Encrypt(key, src []byte) ([]byte, error)
CBCPKCS7Encrypt(key, src, rnd) == CBCEncrypt(key, PKCS7Padding(src), rnd)

\* func CBCPKCS7Decrypt(key, src []byte) ([]byte, error)
CBCPKCS7Decrypt(key, src) ==
    LET pt == CBCDecrypt(key, src)
    IN  IF pt.err # "nil" THEN Fail(pt.err)
        ELSE LET original == PKCS7UnPadding(pt.out)
             IN  IF original.err # "nil" THEN Fail(original.err)
                 ELSE Ok(original.out)


----------------------------------------------------------------------------
(* primitives (hash.go): HMAC under the default hash.                      *)

\* AESKeyLength
AESKeyLength == 32

\* Length of the digests of the default hash (GetDefaultHash()).
HashSize == 32

RECURSIVE SumBytes(_)
SumBytes(b) == IF Len(b) = 0 THEN 0 ELSE b[1] + SumBytes(Tail(b))

\* mac := hmac.New(GetDefaultHash(), key); mac.Write(x); mac.Sum(nil): a tag
\* of HashSize bytes that depends on the key and on the message.
Mac(key, x) ==
    [i \in 1..HashSize |->
        (SumBytes(key) + 3 * SumBytes(x) + Len(x) + 7 * i) % ByteRange]

\* The capacities that the slice returned by mac.Sum(nil) can have: its
\* length or more, as the allocator rounds.
SumCaps == HashSize..(HashSize + MaxSpare)

\* func HMAC(key, x []byte) []byte
HMAC(key, x) == Mac(key, x)

\* A variant of HMACTruncated that returns the last bytes of the tag.
HMACTruncatedFromEnd(key, x, truncation, cap) ==
    LET tag == Mac(key, x)
    IN  IF truncation < 0 \/ truncation > cap THEN Fail("panic")
        ELSE Ok([i \in 1..truncation |->
                    IF truncation <= HashSize THEN tag[HashSize - truncation + i]
                    ELSE 0])

\* func HMACTruncated(key, x []byte, truncation int) []byte
\* mac.Sum(nil)[:truncation] panics for a truncation that is negative or
\* exceeds the capacity cap of the slice, and else returns the slice
\* re-sliced to truncation bytes, those past the tag being zero.
HMACTruncated(key, x, truncation, cap) ==
    LET tag == Mac(key, x)
    IN  IF truncation < 0 \/ truncation > cap THEN Fail("panic")
        ELSE Ok([i \in 1..truncation |-> IF i <= HashSize THEN tag[i] ELSE 0])

\* func HMACAESTruncated(key, x []byte) []byte
HMACAESTruncated(key, x, cap) == HMACTruncated(key, x, AESKeyLength, cap)

----------------------------------------------------------------------------
(* The configuration caches of the peer and comm packages, and the start   *)
(* of serve.  viper holds each value as the configuration source gave it:  *)
(* flags as the strings "true" / "false", addresses as <<host, port>> or   *)
(* <<host>> when they have no port, channel sizes as numbers.              *)

\* The flags CacheConfiguration reads.
BoolKeys == {"peer.validator.enabled", "security.enabled", "peer.tls.enabled",
             "peer.addressAutoDetect"}

\* The channel sizes CacheConfiguration reads.
SizeKeys == {"peer.sync.state.snapshot.channelSize",
             "peer.sync.state.deltas.channelSize",
             "peer.sync.blocks.channelSize"}

\* The keys changed from outside serve, and the values each may take.
SetKeys == BoolKeys \cup SizeKeys \cup {"peer.address"}

Addresses == {<<"0.0.0.0", "7051">>, <<"peer0">>}

ValuesOf(key) ==
    IF key \in BoolKeys THEN {"true", "false"}
    ELSE IF key \in SizeKeys THEN {50, 20}
    ELSE Addresses

\* chaincode.DevModeUserRunsChaincode
DevModeUserRunsChaincode == "dev"

\* The configuration as loaded, before serve runs.
ViperLoaded ==
    [key \in SetKeys \cup {"peer.validator.consensus", "chaincode.mode",
                            "peer.id", "peer.listenAddress",
                            "peer.profile.enabled"} |->
        IF key \in BoolKeys THEN "false"
        ELSE IF key \in SizeKeys THEN 50
        ELSE IF key = "peer.validator.consensus" THEN "pbft"
        ELSE IF key = "chaincode.mode" THEN "net"
        ELSE IF key = "peer.id" THEN "jdoe"
        ELSE IF key = "peer.profile.enabled" THEN "false"
        ELSE <<"0.0.0.0", "7051">>]

\* viper.GetBool: the value cast with strconv.ParseBool
GetBool(key) == viper[key] \in {"1", "t", "T", "TRUE", "true", "True"}

\* viper.GetInt, viper.GetString
GetInt(key) == viper[key]

GetString(key) == viper[key]

\* net.SplitHostPort: fails on an address without a port
SplitHostPort(hostport) ==
    IF Len(hostport) = 2
    THEN [host |-> hostport[1], port |-> hostport[2], err |-> "nil"]
    ELSE [host |-> "", port |-> "", err |-> "missing port in address"]

\* net.JoinHostPort
JoinHostPort(host, port) == <<host, port>>

\* GetLocalIP(): the address of the first non-loopback interface
GetLocalIP == "172.17.0.2"

\* getLocalAddress := func() (peerAddress string, err error) { ... }
getLocalAddress ==
    IF GetBool("peer.addressAutoDetect")
    THEN LET r == SplitHostPort(GetString("peer.address"))
         IN  IF r.err # "nil"
             THEN [peerAddress |-> <<>>, err |-> "ErrAutoDetect"]
             ELSE [peerAddress |-> JoinHostPort(GetLocalIP, r.port),
                   err |-> "nil"]
    ELSE [peerAddress |-> GetString("peer.address"), err |-> "nil"]

\* getPeerEndpoint := func() (*pb.PeerEndpoint, error) { ... }
getPeerEndpoint ==
    LET r == getLocalAddress
    IN  IF r.err # "nil"
        THEN [endpoint |-> <<>>, err |-> r.err]
        ELSE [endpoint |->
                <<[ID |-> GetString("peer.id"),
                   Address |-> r.peerAddress,
                   Type |-> IF GetBool("peer.validator.enabled")
                            THEN "VALIDATOR" ELSE "NON_VALIDATOR"]>>,
              err |-> "nil"]

\* A variant of PeerCacheConfiguration that marks the cache populated only
\* when the address was found.
PeerCacheConfigurationOnSuccess ==
    /\ localAddress' = getLocalAddress.peerAddress
    /\ localAddressError' = getLocalAddress.err
    /\ peerEndpoint' = getPeerEndpoint.endpoint
    /\ peerEndpointError' = getPeerEndpoint.err
    /\ syncStateSnapshotChannelSize' =
          GetInt("peer.sync.state.snapshot.channelSize")
    /\ syncStateDeltasChannelSize' = GetInt("peer.sync.state.deltas.channelSize")
    /\ syncBlocksChannelSize' = GetInt("peer.sync.blocks.channelSize")
    /\ validatorEnabled' = GetBool("peer.validator.enabled")
    /\ securityEnabled' = GetBool("security.enabled")
    /\ configurationCached' = (configurationCached \/ getLocalAddress.err = "nil")

\* func CacheConfiguration() (err error) of package peer: the assignments to
\* the package variables, from the configuration as it is at the call.
PeerCacheConfiguration ==
    /\ localAddress' = getLocalAddress.peerAddress
    /\ localAddressError' = getLocalAddress.err
    /\ peerEndpoint' = getPeerEndpoint.endpoint
    /\ peerEndpointError' = getPeerEndpoint.err
    /\ syncStateSnapshotChannelSize' =
          GetInt("peer.sync.state.snapshot.channelSize")
    /\ syncStateDeltasChannelSize' = GetInt("peer.sync.state.deltas.channelSize")
    /\ syncBlocksChannelSize' = GetInt("peer.sync.blocks.channelSize")
    /\ validatorEnabled' = GetBool("peer.validator.enabled")
    /\ securityEnabled' = GetBool("security.enabled")
    /\ configurationCached' = TRUE

\* ... and the error it returns.
PeerCacheConfigurationErr ==
    IF getLocalAddress.err # "nil" THEN getLocalAddress.err
    ELSE getPeerEndpoint.err

\* if !configurationCached { cacheConfiguration() }
PeerCachedOrCache ==
    IF ~configurationCached THEN PeerCacheConfiguration
    ELSE UNCHANGED peerCacheVars

\* func CacheConfiguration() (err error) of package comm
CommCacheConfiguration ==
    /\ tlsEnabled' = GetBool("peer.tls.enabled")
    /\ commConfigurationCached' = TRUE

\* A step from outside the start of serve.  From its first statement to
\* net.Listen serve runs on the only goroutine of the process: such a step is
\* taken before serve is called, once serve listens, or after it returned.
ConfFrame ==
    /\ servePc \in {"devmode", "listening", "returned"}
    /\ UNCHANGED <<nodeSide, helperVars, primVars, chaincodeDevMode, serveVars,
                   runVars>>

\* viper.Set(key, value) from outside serve
ViperSet(key, value) ==
    /\ nSet < MaxSets
    /\ value # viper[key]
    /\ viper' = [viper EXCEPT ![key] = value]
    /\ nSet' = nSet + 1
    /\ got' = <<>>
    /\ ConfFrame
    /\ UNCHANGED <<peerCacheVars, commCacheVars>>

\* peer.CacheConfiguration() called from outside serve
CallPeerCacheConfiguration ==
    /\ PeerCacheConfiguration
    /\ got' = <<"CacheConfiguration", PeerCacheConfigurationErr>>
    /\ ConfFrame
    /\ UNCHANGED <<viper, nSet, commCacheVars>>

\* comm.CacheConfiguration()
CallCommCacheConfiguration ==
    /\ CommCacheConfiguration
    /\ got' = <<"comm.CacheConfiguration", "nil">>
    /\ ConfFrame
    /\ UNCHANGED <<viper, nSet, peerCacheVars>>

\* func GetLocalAddress() (string, error)
GetLocalAddress ==
    /\ PeerCachedOrCache
    /\ got' = <<"GetLocalAddress", localAddress', localAddressError'>>
    /\ ConfFrame
    /\ UNCHANGED <<viper, nSet, commCacheVars>>

\* func GetPeerEndpoint() (*pb.PeerEndpoint, error)
GetPeerEndpoint ==
    /\ PeerCachedOrCache
    /\ got' = <<"GetPeerEndpoint", peerEndpoint', peerEndpointError'>>
    /\ ConfFrame
    /\ UNCHANGED <<viper, nSet, commCacheVars>>

\* func SyncStateSnapshotChannelSize() int
SyncStateSnapshotChannelSize ==
    /\ PeerCachedOrCache
    /\ got' = <<"SyncStateSnapshotChannelSize", syncStateSnapshotChannelSize'>>
    /\ ConfFrame
    /\ UNCHANGED <<viper, nSet, commCacheVars>>

\* func SyncStateDeltasChannelSize() int
SyncStateDeltasChannelSize ==
    /\ PeerCachedOrCache
    /\ got' = <<"SyncStateDeltasChannelSize", syncStateDeltasChannelSize'>>
    /\ ConfFrame
    /\ UNCHANGED <<viper, nSet, commCacheVars>>

\* func SyncBlocksChannelSize() int
SyncBlocksChannelSize ==
    /\ PeerCachedOrCache
    /\ got' = <<"SyncBlocksChannelSize", syncBlocksChannelSize'>>
    /\ ConfFrame
    /\ UNCHANGED <<viper, nSet, commCacheVars>>

\* A variant of ValidatorEnabled that reads the configuration at every call.
ValidatorEnabledUncached ==
    /\ PeerCacheConfiguration
    /\ got' = <<"ValidatorEnabled", validatorEnabled'>>
    /\ ConfFrame
    /\ UNCHANGED <<viper, nSet, commCacheVars>>

\* func ValidatorEnabled() bool
ValidatorEnabled ==
    /\ PeerCachedOrCache
    /\ got' = <<"ValidatorEnabled", validatorEnabled'>>
    /\ ConfFrame
    /\ UNCHANGED <<viper, nSet, commCacheVars>>

\* func SecurityEnabled() bool
SecurityEnabled ==
    /\ PeerCachedOrCache
    /\ got' = <<"SecurityEnabled", securityEnabled'>>
    /\ ConfFrame
    /\ UNCHANGED <<viper, nSet, commCacheVars>>

\* func TLSEnabled() bool of package comm
TLSEnabled ==
    /\ IF ~commConfigurationCached THEN CommCacheConfiguration
       ELSE UNCHANGED commCacheVars
    /\ got' = <<"TLSEnabled", tlsEnabled'>>
    /\ ConfFrame
    /\ UNCHANGED <<viper, nSet, peerCacheVars>>

----------------------------------------------------------------------------
(* peer.CacheConfiguration run again by a goroutine beside the callers of  *)
(* the getters: the package variables are assigned one statement at a      *)
(* time, under no lock, each statement reading the configuration as it is  *)
(* by then.                                                                *)

\* What a statement of that call leaves alone.
CacheFrame ==
    /\ servePc = "listening"
    /\ UNCHANGED <<nodeSide, helperVars, primVars, viper, chaincodeDevMode,
                   commCacheVars, serveVars, nSet, waitVars>>

\* localAddress, localAddressError = getLocalAddress()
CacheLocalAddress ==
    /\ cachePc = "idle"
    /\ localAddress' = getLocalAddress.peerAddress
    /\ localAddressError' = getLocalAddress.err
    /\ cachePc' = "endpoint"
    /\ got' = <<>>
    /\ CacheFrame
    /\ UNCHANGED <<peerEndpoint, peerEndpointError,
                   syncStateSnapshotChannelSize,
                   syncStateDeltasChannelSize, syncBlocksChannelSize,
                   validatorEnabled, securityEnabled, configurationCached>>

\* peerEndpoint, peerEndpointError = getPeerEndpoint()
CachePeerEndpoint ==
    /\ cachePc = "endpoint"
    /\ peerEndpoint' = getPeerEndpoint.endpoint
    /\ peerEndpointError' = getPeerEndpoint.err
    /\ cachePc' = "snapshot"
    /\ got' = <<>>
    /\ CacheFrame
    /\ UNCHANGED <<localAddress, localAddressError,
                   syncStateSnapshotChannelSize,
                   syncStateDeltasChannelSize, syncBlocksChannelSize,
                   validatorEnabled, securityEnabled, configurationCached>>

\* syncStateSnapshotChannelSize = viper.GetInt(...)
CacheSyncStateSnapshotChannelSize ==
    /\ cachePc = "snapshot"
    /\ syncStateSnapshotChannelSize' = GetInt("peer.sync.state.snapshot.channelSize")
    /\ cachePc' = "deltas"
    /\ got' = <<>>
    /\ CacheFrame
    /\ UNCHANGED <<localAddress, localAddressError, peerEndpoint,
                   peerEndpointError, syncStateDeltasChannelSize,
                   syncBlocksChannelSize, validatorEnabled,
                   securityEnabled, configurationCached>>

\* syncStateDeltasChannelSize = viper.GetInt(...)
CacheSyncStateDeltasChannelSize ==
    /\ cachePc = "deltas"
    /\ syncStateDeltasChannelSize' = GetInt("peer.sync.state.deltas.channelSize")
    /\ cachePc' = "blocks"
    /\ got' = <<>>
    /\ CacheFrame
    /\ UNCHANGED <<localAddress, localAddressError, peerEndpoint,
                   peerEndpointError, syncStateSnapshotChannelSize,
                   syncBlocksChannelSize, validatorEnabled,
                   securityEnabled, configurationCached>>

\* syncBlocksChannelSize = viper.GetInt(...)
CacheSyncBlocksChannelSize ==
    /\ cachePc = "blocks"
    /\ syncBlocksChannelSize' = GetInt("peer.sync.blocks.channelSize")
    /\ cachePc' = "validator"
    /\ got' = <<>>
    /\ CacheFrame
    /\ UNCHANGED <<localAddress, localAddressError, peerEndpoint,
                   peerEndpointError, syncStateSnapshotChannelSize,
                   syncStateDeltasChannelSize, validatorEnabled,
                   securityEnabled, configurationCached>>

\* validatorEnabled = viper.GetBool("peer.validator.enabled")
CacheValidatorEnabled ==
    /\ cachePc = "validator"
    /\ validatorEnabled' = GetBool("peer.validator.enabled")
    /\ cachePc' = "security"
    /\ got' = <<>>
    /\ CacheFrame
    /\ UNCHANGED <<localAddress, localAddressError, peerEndpoint,
                   peerEndpointError, syncStateSnapshotChannelSize,
                   syncStateDeltasChannelSize, syncBlocksChannelSize,
                   securityEnabled, configurationCached>>

\* securityEnabled = viper.GetBool("security.enabled")
CacheSecurityEnabled ==
    /\ cachePc = "security"
    /\ securityEnabled' = GetBool("security.enabled")
    /\ cachePc' = "cached"
    /\ got' = <<>>
    /\ CacheFrame
    /\ UNCHANGED <<localAddress, localAddressError, peerEndpoint,
                   peerEndpointError, syncStateSnapshotChannelSize,
                   syncStateDeltasChannelSize, syncBlocksChannelSize,
                   validatorEnabled, configurationCached>>

\* configurationCached = true
CacheConfigurationCached ==
    /\ cachePc = "cached"
    /\ configurationCached' = TRUE
    /\ cachePc' = "return"
    /\ got' = <<>>
    /\ CacheFrame
    /\ UNCHANGED <<localAddress, localAddressError, peerEndpoint,
                   peerEndpointError, syncStateSnapshotChannelSize,
                   syncStateDeltasChannelSize, syncBlocksChannelSize,
                   validatorEnabled, securityEnabled>>

\* if localAddressError != nil { return localAddressError } else if
\* peerEndpointError != nil { return peerEndpointError }; return
CacheReturn ==
    /\ cachePc = "return"
    /\ got' = <<"CacheConfiguration",
                IF localAddressError # "nil" THEN localAddressError
                ELSE peerEndpointError>>
    /\ cachePc' = "idle"
    /\ CacheFrame
    /\ UNCHANGED peerCacheVars

\* What a step of serve leaves alone.
ServeFrame ==
    /\ got' = <<>>
    /\ UNCHANGED <<nodeSide, helperVars, primVars, chaincodeDevMode, nSet,
                   commCacheVars, runVars>>

\* if chaincodeDevMode { viper.Set(...); viper.Set(...); viper.Set(...) }
ServeDevMode ==
    /\ servePc = "devmode"
    /\ viper' = IF chaincodeDevMode
                THEN [viper EXCEPT
                        !["peer.validator.enabled"] = "true",
                        !["peer.validator.consensus"] = "noops",
                        !["chaincode.mode"] = DevModeUserRunsChaincode]
                ELSE viper
    /\ servePc' = "cache"
    /\ ServeFrame
    /\ UNCHANGED <<peerCacheVars, serveErr, servePeerEndpoint, lis>>

\* A variant of ServeCacheConfiguration that goes on after a failure.
ServeCacheConfigurationGoesOn ==
    /\ servePc = "cache"
    /\ PeerCacheConfiguration
    /\ servePc' = "endpoint"
    /\ ServeFrame
    /\ UNCHANGED <<viper, serveErr, servePeerEndpoint, lis>>

\* if err := peer.CacheConfiguration(); err != nil { return err }
ServeCacheConfiguration ==
    /\ servePc = "cache"
    /\ PeerCacheConfiguration
    /\ IF PeerCacheConfigurationErr # "nil"
       THEN /\ serveErr' = PeerCacheConfigurationErr
            /\ servePc' = "returned"
       ELSE /\ servePc' = "endpoint"
            /\ UNCHANGED serveErr
    /\ ServeFrame
    /\ UNCHANGED <<viper, servePeerEndpoint, lis>>

\* peerEndpoint, err := peer.GetPeerEndpoint()
\* if err != nil { err = fmt.Errorf("Failed to get Peer Endpoint: %s", err); return err }
ServeGetPeerEndpoint ==
    /\ servePc = "endpoint"
    /\ PeerCachedOrCache
    /\ servePeerEndpoint' = peerEndpoint'
    /\ IF peerEndpointError' # "nil"
       THEN /\ serveErr' = "Failed to get Peer Endpoint"
            /\ servePc' = "returned"
       ELSE /\ servePc' = "listen"
            /\ UNCHANGED serveErr
    /\ ServeFrame
    /\ UNCHANGED <<viper, lis>>

\* listenAddr := viper.GetString("peer.listenAddress"); if "" == listenAddr
\* { listenAddr = peerEndpoint.Address }; lis, err := net.Listen("tcp",
\* listenAddr); if err != nil { grpclog.Fatalf(...) }
ServeListen ==
    /\ servePc = "listen"
    /\ LET listenAddr == IF GetString("peer.listenAddress") = <<>>
                         THEN servePeerEndpoint[1].Address
                         ELSE GetString("peer.listenAddress")
       IN  \E r \in {"nil", "ErrListen"} :
              IF r # "nil"
              THEN /\ servePc' = "exit"
                   /\ UNCHANGED lis
              ELSE /\ servePc' = "listening"
                   /\ lis' = Append(lis, listenAddr)
    /\ ServeFrame
    /\ UNCHANGED <<viper, peerCacheVars, serveErr, servePeerEndpoint>>

----------------------------------------------------------------------------
(* The end of serve: the goroutine that waits for SIGINT / SIGTERM and the *)
(* goroutine that runs the gRPC server each send one value on the          *)
(* unbuffered channel serve; serve writes the pid file, starts the event   *)
(* hub and the profiling server, and returns the first value it receives.  *)

\* What a step of the end of serve leaves alone.
WaitFrame ==
    /\ got' = <<>>
    /\ UNCHANGED <<nodeSide, helperVars, primVars, viper, chaincodeDevMode, nSet,
                   commCacheVars, peerCacheVars, cachePc, servePeerEndpoint,
                   lis, ehubGrpcServer>>

\* The operating system delivers SIGINT or SIGTERM: signal.Notify(sigs, ...)
\* puts it into sigs when there is room.
SignalNotify(sig) ==
    /\ sigPc # "none"
    /\ sigs = <<>>
    /\ sigs' = <<sig>>
    /\ WaitFrame
    /\ UNCHANGED <<servePc, serveErr, goroutines, serve, sigPc, grpcPc, grpcErr,
                   firstEvent, firstAt>>

\* sig := <-sigs; fmt.Println(); fmt.Println(sig)
SigReceive ==
    /\ sigPc = "sigs"
    /\ sigs # <<>>
    /\ sigs' = <<>>
    /\ sigPc' = "send"
    /\ firstEvent' = IF firstEvent = "none" THEN "signal" ELSE firstEvent
    /\ firstAt' = IF firstEvent = "none" THEN servePc ELSE firstAt
    /\ WaitFrame
    /\ UNCHANGED <<servePc, serveErr, goroutines, serve, grpcPc, grpcErr>>

\* serve <- nil: the goroutine blocks on the channel
SigSend ==
    /\ sigPc = "send"
    /\ serve' = Append(serve, <<"sig", "nil">>)
    /\ sigPc' = "blocked"
    /\ WaitFrame
    /\ UNCHANGED <<servePc, serveErr, goroutines, sigs, grpcPc, grpcErr,
                   firstEvent, firstAt>>

\* if grpcErr = grpcServer.Serve(lis); grpcErr != nil { grpcErr =
\* fmt.Errorf("grpc server exited with error: %s", grpcErr) }
GrpcServe(r) ==
    /\ grpcPc = "serving"
    /\ grpcErr' = IF r # "nil" THEN "grpc server exited with error" ELSE "nil"
    /\ grpcPc' = "send"
    /\ firstEvent' = IF firstEvent # "none" THEN firstEvent
                     ELSE IF r # "nil" THEN "grpcError" ELSE "grpcExit"
    /\ firstAt' = IF firstEvent = "none" THEN servePc ELSE firstAt
    /\ WaitFrame
    /\ UNCHANGED <<servePc, serveErr, goroutines, sigs, serve, sigPc>>

\* serve <- grpcErr: the goroutine blocks on the channel
GrpcSend ==
    /\ grpcPc = "send"
    /\ serve' = Append(serve, <<"grpc", grpcErr>>)
    /\ grpcPc' = "blocked"
    /\ WaitFrame
    /\ UNCHANGED <<servePc, serveErr, goroutines, sigs, sigPc, grpcErr,
                   firstEvent, firstAt>>

\* if err := writePid(...); err != nil { return err }
ServeWritePid ==
    /\ servePc = "writePid"
    /\ \E r \in {"nil", "ErrWritePid"} :
          /\ serveErr' = r
          /\ servePc' = IF r # "nil" THEN "returned" ELSE "ehub"
    /\ WaitFrame
    /\ UNCHANGED <<goroutines, sigs, serve, sigPc, grpcPc, grpcErr, firstEvent,
                   firstAt>>

\* if ehubGrpcServer != nil && ehubLis != nil { go ehubGrpcServer.Serve(ehubLis) }
ServeStartEventHub ==
    /\ servePc = "ehub"
    /\ goroutines' = IF ehubGrpcServer # "nil" THEN goroutines \cup {"ehub"}
                     ELSE goroutines
    /\ servePc' = "profile"
    /\ WaitFrame
    /\ UNCHANGED <<serveErr, sigs, serve, sigPc, grpcPc, grpcErr, firstEvent,
                   firstAt>>

\* if viper.GetBool("peer.profile.enabled") { go func() { ... }() }
ServeStartProfile ==
    /\ servePc = "profile"
    /\ goroutines' = IF GetBool("peer.profile.enabled")
                     THEN goroutines \cup {"profile"} ELSE goroutines
    /\ servePc' = "wait"
    /\ WaitFrame
    /\ UNCHANGED <<serveErr, sigs, serve, sigPc, grpcPc, grpcErr, firstEvent,
                   firstAt>>

\* A variant of ServeReceive that does not block on an empty channel.
ServeReceiveNoWait ==
    /\ servePc = "wait"
    /\ serveErr' = IF serve = <<>> THEN "nil" ELSE Head(serve)[2]
    /\ serve' = IF serve = <<>> THEN serve ELSE Tail(serve)
    /\ sigPc' = IF serve # <<>> /\ Head(serve)[1] = "sig" THEN "done" ELSE sigPc
    /\ grpcPc' = IF serve # <<>> /\ Head(serve)[1] = "grpc" THEN "done"
                 ELSE grpcPc
    /\ servePc' = "returned"
    /\ WaitFrame
    /\ UNCHANGED <<goroutines, sigs, grpcErr, firstEvent,
                   firstAt>>

\* return <-serve: takes the value of the sender that blocked first
ServeReceive ==
    /\ servePc = "wait"
    /\ serve # <<>>
    /\ serveErr' = Head(serve)[2]
    /\ serve' = Tail(serve)
    /\ sigPc' = IF Head(serve)[1] = "sig" THEN "done" ELSE sigPc
    /\ grpcPc' = IF Head(serve)[1] = "grpc" THEN "done" ELSE grpcPc
    /\ servePc' = "returned"
    /\ WaitFrame
    /\ UNCHANGED <<goroutines, sigs, grpcErr, firstEvent,
                   firstAt>>

----------------------------------------------------------------------------
(* The initial state: a node object as constructed, over an empty key      *)
(* store; no caller of getSecHelper yet.                                   *)

NodeInit ==
    /\ isRegistered = FALSE
    /\ isInitialized = FALSE
    /\ eType = "NodeClient"
    /\ ksInit = FALSE
    /\ ksClosed = FALSE
    /\ enrollCert = 0
    /\ caCalls = 0
    /\ engineCalls = 0
    /\ engineBuilt = 0
    /\ hookCalls = 0
    /\ closed = FALSE
    /\ pc = [t \in Threads |-> "idle"]
    /\ op = [t \in Threads |-> "none"]
    /\ hook = [t \in Threads |-> "nil"]
    /\ err = [t \in Threads |-> "nil"]
    /\ called = [t \in Threads |-> {}]

SecInit ==
    /\ onceDone = FALSE
    /\ onceM = 0
    /\ spc = [c \in Callers |-> "idle"]
    /\ secHelper = [c \in Callers |-> "nil"]
    /\ secErr = [c \in Callers |-> "nil"]
    /\ cryptoLog = <<>>

\* No primitive has been called.
PrimInit ==
    /\ aKey = <<>>
    /\ aMsg = <<>>
    /\ aBuf = <<>>
    /\ aErr = "nil"
    /\ aHist = <<>>
    /\ aArg = <<>>
    /\ aIV = <<>>
    /\ aTrunc = 0

\* serve has started none of its goroutines.
WaitInit ==
    /\ ehubGrpcServer = "nil"
    /\ goroutines = {}
    /\ sigs = <<>>
    /\ serve = <<>>
    /\ sigPc = "none"
    /\ grpcPc = "none"
    /\ grpcErr = "nil"
    /\ firstEvent = "none"
    /\ firstAt = "none"

\* The package variables of peer and comm before any call; serve has not
\* run.
ConfInit ==
    /\ configurationCached = FALSE
    /\ localAddress = <<>>
    /\ localAddressError = "nil"
    /\ peerEndpoint = <<>>
    /\ peerEndpointError = "nil"
    /\ syncStateSnapshotChannelSize = 0
    /\ syncStateDeltasChannelSize = 0
    /\ syncBlocksChannelSize = 0
    /\ commConfigurationCached = FALSE
    /\ tlsEnabled = FALSE
    /\ servePc = "devmode"
    /\ serveErr = "nil"
    /\ servePeerEndpoint = <<>>
    /\ lis = <<>>
    /\ got = <<>>
    /\ nSet = 0
    /\ cachePc = "idle"
    /\ WaitInit

\* ... and the configuration as loaded.
ConfLoaded ==
    /\ ConfInit
    /\ viper = ViperLoaded
    /\ chaincodeDevMode = FALSE

Init ==
    /\ NodeInit
    /\ SecInit
    /\ ConfLoaded
    /\ PrimInit
    /\ securityEnabled = TRUE
    /\ validatorEnabled = FALSE

----------------------------------------------------------------------------
(* Spec: the calls on the node run one after another.                      *)

NoCallActive == \A u \in Threads : pc[u] = "idle"

SeqRegister(t) ==
    /\ NoCallActive
    /\ caCalls < MaxCount
    /\ \E ty \in NodeTypes, h \in Hooks : RegEnter(t, ty, h)
    /\ UNCHANGED called

SeqInit(t) ==
    /\ NoCallActive
    /\ engineCalls < MaxCount
    /\ \E ty \in NodeTypes, h \in Hooks : InitEnter(t, ty, h)
    /\ UNCHANGED called

SeqClose(t) ==
    /\ NoCallActive
    /\ Close(t)
    /\ UNCHANGED called

Next == \E t \in Threads : SeqRegister(t) \/ SeqInit(t) \/ SeqClose(t) \/ Step(t)

Spec == Init /\ [][Next]_vars

(* SpecConc: the threads call concurrently, each operation at most once    *)
(* per thread.                                                             *)

ConcRegister(t) ==
    /\ "register" \notin called[t]
    /\ called' = [called EXCEPT ![t] = @ \cup {"register"}]
    /\ \E ty \in NodeTypes, h \in Hooks : RegEnter(t, ty, h)

ConcInit(t) ==
    /\ "init" \notin called[t]
    /\ called' = [called EXCEPT ![t] = @ \cup {"init"}]
    /\ \E ty \in NodeTypes, h \in Hooks : InitEnter(t, ty, h)

ConcClose(t) ==
    /\ "close" \notin called[t]
    /\ called' = [called EXCEPT ![t] = @ \cup {"close"}]
    /\ Close(t)

NextConc ==
    \E t \in Threads : ConcRegister(t) \/ ConcInit(t) \/ ConcClose(t) \/ Step(t)

SpecConc == Init /\ [][NextConc]_vars

(* SpecSec: the callers of getSecHelper, in one process whose security     *)
(* configuration is fixed at start.                                        *)

InitSec ==
    /\ NodeInit
    /\ SecInit
    /\ ConfLoaded
    /\ PrimInit
    /\ securityEnabled \in BOOLEAN
    /\ validatorEnabled \in BOOLEAN

NextSec ==
    \E c \in Callers :
       \/ GetSecHelperEnter(c)
       \/ OnceDo(c)
       \/ SecDisabled(c)
       \/ SecRegister(c)
       \/ SecInitialize(c)
       \/ OnceUnlock(c)
       \/ GetSecHelperReturn(c)
       \/ SecFinish(c)

SpecSec == InitSec /\ [][NextSec]_vars

----------------------------------------------------------------------------
(* SpecConf: serve starts, with the flag --peer-chaincodedev given or not, *)
(* while the cached getters are called, the configuration is changed and   *)
(* the caches are refreshed from outside serve.                            *)

InitConf ==
    /\ NodeInit
    /\ SecInit
    /\ PrimInit
    /\ securityEnabled = FALSE
    /\ validatorEnabled = FALSE
    /\ ConfInit
    /\ chaincodeDevMode \in BOOLEAN
    /\ \E a \in Addresses, l \in {<<>>, <<"0.0.0.0", "7051">>} :
          viper = [ViperLoaded EXCEPT !["peer.address"] = a,
                                      !["peer.listenAddress"] = l]

NextConf ==
    \/ \E key \in SetKeys : \E value \in ValuesOf(key) : ViperSet(key, value)
    \/ CallPeerCacheConfiguration
    \/ CallCommCacheConfiguration
    \/ GetLocalAddress
    \/ GetPeerEndpoint
    \/ SyncStateSnapshotChannelSize
    \/ SyncStateDeltasChannelSize
    \/ SyncBlocksChannelSize
    \/ ValidatorEnabled
    \/ SecurityEnabled
    \/ TLSEnabled
    \/ ServeDevMode
    \/ ServeCacheConfiguration
    \/ ServeGetPeerEndpoint
    \/ ServeListen

SpecConf == InitConf /\ [][NextConf]_vars

----------------------------------------------------------------------------
(* SpecRecache: serve has cached the loaded configuration and listens; the *)
(* configuration is changed, one goroutine runs CacheConfiguration again   *)
(* and others call the getters.                                            *)

InitRecache ==
    /\ NodeInit
    /\ SecInit
    /\ PrimInit
    /\ chaincodeDevMode = FALSE
    /\ \E auto \in {"false", "true"} :
          viper = [ViperLoaded EXCEPT !["peer.addressAutoDetect"] = auto]
    /\ localAddress = getLocalAddress.peerAddress
    /\ localAddressError = getLocalAddress.err
    /\ peerEndpoint = getPeerEndpoint.endpoint
    /\ peerEndpointError = getPeerEndpoint.err
    /\ syncStateSnapshotChannelSize =
          GetInt("peer.sync.state.snapshot.channelSize")
    /\ syncStateDeltasChannelSize = GetInt("peer.sync.state.deltas.channelSize")
    /\ syncBlocksChannelSize = GetInt("peer.sync.blocks.channelSize")
    /\ validatorEnabled = GetBool("peer.validator.enabled")
    /\ securityEnabled = GetBool("security.enabled")
    /\ configurationCached = TRUE
    /\ commConfigurationCached = FALSE
    /\ tlsEnabled = FALSE
    /\ servePc = "listening"
    /\ serveErr = "nil"
    /\ servePeerEndpoint = peerEndpoint
    /\ lis = <<GetString("peer.listenAddress")>>
    /\ got = <<>>
    /\ nSet = 0
    /\ cachePc = "idle"
    /\ WaitInit

NextRecache ==
    \/ \E key \in SetKeys : \E value \in ValuesOf(key) : ViperSet(key, value)
    \/ CacheLocalAddress
    \/ CachePeerEndpoint
    \/ CacheSyncStateSnapshotChannelSize
    \/ CacheSyncStateDeltasChannelSize
    \/ CacheSyncBlocksChannelSize
    \/ CacheValidatorEnabled
    \/ CacheSecurityEnabled
    \/ CacheConfigurationCached
    \/ CacheReturn
    \/ GetLocalAddress
    \/ GetPeerEndpoint
    \/ ValidatorEnabled

SpecRecache == InitRecache /\ [][NextRecache]_vars

----------------------------------------------------------------------------
(* SpecWait: serve has started the signal goroutine and the gRPC           *)
(* goroutine.  SpecWaitFair adds what the scheduler gives: a goroutine     *)
(* that can run its next statement does so; when a signal arrives or the   *)
(* gRPC server exits is up to the environment.                             *)

InitWait ==
    /\ NodeInit
    /\ SecInit
    /\ PrimInit
    /\ chaincodeDevMode = FALSE
    /\ \E validator \in {"false", "true"}, profile \in {"false", "true"} :
          viper = [ViperLoaded EXCEPT !["peer.validator.enabled"] = validator,
                                      !["peer.profile.enabled"] = profile]
    /\ localAddress = getLocalAddress.peerAddress
    /\ localAddressError = getLocalAddress.err
    /\ peerEndpoint = getPeerEndpoint.endpoint
    /\ peerEndpointError = getPeerEndpoint.err
    /\ syncStateSnapshotChannelSize =
          GetInt("peer.sync.state.snapshot.channelSize")
    /\ syncStateDeltasChannelSize = GetInt("peer.sync.state.deltas.channelSize")
    /\ syncBlocksChannelSize = GetInt("peer.sync.blocks.channelSize")
    /\ validatorEnabled = GetBool("peer.validator.enabled")
    /\ securityEnabled = GetBool("security.enabled")
    /\ configurationCached = TRUE
    /\ commConfigurationCached = TRUE
    /\ tlsEnabled = GetBool("peer.tls.enabled")
    /\ servePc = "writePid"
    /\ serveErr = "nil"
    /\ servePeerEndpoint = peerEndpoint
    /\ lis = <<GetString("peer.listenAddress")>>
    /\ got = <<>>
    /\ nSet = 0
    /\ cachePc = "idle"
    /\ ehubGrpcServer = IF validatorEnabled THEN "server" ELSE "nil"
    /\ goroutines = {}
    /\ sigs = <<>>
    /\ serve = <<>>
    /\ sigPc = "sigs"
    /\ grpcPc = "serving"
    /\ grpcErr = "nil"
    /\ firstEvent = "none"
    /\ firstAt = "none"

NextWait ==
    \/ \E sig \in {"SIGINT", "SIGTERM"} : SignalNotify(sig)
    \/ SigReceive
    \/ SigSend
    \/ \E r \in {"nil", "ErrServe"} : GrpcServe(r)
    \/ GrpcSend
    \/ ServeWritePid
    \/ ServeStartEventHub
    \/ ServeStartProfile
    \/ ServeReceive

SpecWait == InitWait /\ [][NextWait]_vars

SpecWaitFair ==
    /\ SpecWait
    /\ WF_vars(SigReceive)
    /\ WF_vars(SigSend)
    /\ WF_vars(GrpcSend)
    /\ WF_vars(ServeReceive)

(* SpecAES: calls of the primitives on one key and one buffer; the buffer  *)
(* a call returns may be passed to a decrypting / unpadding call.          *)

\* Keys: one of each length the cipher accepts, and one it rejects.
Keys == { Repeat(3, n) : n \in KeySizes \cup {5} }

\* The last bytes of a buffer: runs of a byte that may be a padding count.
Tails ==
    { Repeat(b, n) : b \in {0, 1, 2, BlockSize, BlockSize + 1},
                     n \in (0..MaxTail) \cup {BlockSize - 1, BlockSize} }

\* Buffers: a body of bytes that are no padding count, then a tail.
Buffers == { Repeat(200, n) \o tail : n \in 0..MaxBody, tail \in Tails }

InitAES ==
    /\ NodeInit
    /\ SecInit
    /\ ConfLoaded
    /\ securityEnabled = TRUE
    /\ validatorEnabled = FALSE
    /\ aKey \in Keys
    /\ aMsg \in Buffers
    /\ aBuf = aMsg
    /\ aErr = "nil"
    /\ aHist = <<>>
    /\ aArg = aMsg
    /\ aIV = <<>>
    /\ aTrunc = 0

\* The call is the first one.
First == aHist = <<>>

\* The call is the first one, or takes the buffer that the first returned.
FirstOrSecond == Len(aHist) = 0 \/ (Len(aHist) = 1 /\ aErr = "nil")

\* fn has been called and has returned r.
Called(fn, r) ==
    /\ aHist' = Append(aHist, fn)
    /\ aBuf' = r.out
    /\ aErr' = r.err
    /\ UNCHANGED <<aKey, aMsg, aTrunc, nodeSide, secVars, confVars>>

CallPKCS7Padding ==
    /\ First
    /\ Called("PKCS7Padding", Ok(PKCS7Padding(aBuf)))
    /\ aArg' = aBuf
    /\ UNCHANGED aIV

CallPKCS7UnPadding ==
    /\ FirstOrSecond
    /\ Called("PKCS7UnPadding", PKCS7UnPadding(aBuf))
    /\ aArg' = aBuf
    /\ UNCHANGED aIV

CallCBCEncrypt ==
    /\ First
    /\ \E rnd \in RandOutcomes :
          /\ Called("CBCEncrypt", CBCEncrypt(aKey, aBuf, rnd))
          /\ aIV' = rnd.iv
    /\ aArg' = aBuf

CallCBCDecrypt ==
    /\ FirstOrSecond
    /\ Called("CBCDecrypt", CBCDecrypt(aKey, aBuf))
    /\ aArg' = CBCDecryptSrc(aKey, aBuf)
    /\ UNCHANGED aIV

CallCBCPKCS7Encrypt ==
    /\ First
    /\ \E rnd \in RandOutcomes :
          /\ Called("CBCPKCS7Encrypt", CBCPKCS7Encrypt(aKey, aBuf, rnd))
          /\ aIV' = rnd.iv
    /\ aArg' = aBuf

CallCBCPKCS7Decrypt ==
    /\ FirstOrSecond
    /\ Called("CBCPKCS7Decrypt", CBCPKCS7Decrypt(aKey, aBuf))
    /\ aArg' = CBCDecryptSrc(aKey, aBuf)
    /\ UNCHANGED aIV

NextAES ==
    \/ CallPKCS7Padding
    \/ CallPKCS7UnPadding
    \/ CallCBCEncrypt
    \/ CallCBCDecrypt
    \/ CallCBCPKCS7Encrypt
    \/ CallCBCPKCS7Decrypt

SpecAES == InitAES /\ [][NextAES]_vars

(* SpecHash: calls of the HMAC functions on one key and one message.       *)

\* The truncation arguments: negative, zero, up to the tag length, beyond.
Truncations == (0 - 1)..(HashSize + MaxSpare + 1)

InitHash ==
    /\ NodeInit
    /\ SecInit
    /\ ConfLoaded
    /\ securityEnabled = TRUE
    /\ validatorEnabled = FALSE
    /\ aKey \in Keys
    /\ aMsg \in Tails
    /\ aBuf = aMsg
    /\ aErr = "nil"
    /\ aHist = <<>>
    /\ aArg = aMsg
    /\ aIV = <<>>
    /\ aTrunc = 0

\* fn has been called with truncation n and has returned r.
HashCalled(fn, r, n) ==
    /\ aHist' = Append(aHist, fn)
    /\ aBuf' = r.out
    /\ aErr' = r.err
    /\ aTrunc' = n
    /\ aArg' = aBuf
    /\ UNCHANGED <<aKey, aMsg, aIV, nodeSide, secVars, confVars>>

CallHMAC ==
    /\ First
    /\ HashCalled("HMAC", Ok(HMAC(aKey, aBuf)), HashSize)

CallHMACTruncated ==
    /\ First
    /\ \E n \in Truncations, cap \in SumCaps :
          HashCalled("HMACTruncated", HMACTruncated(aKey, aBuf, n, cap), n)

CallHMACAESTruncated ==
    /\ First
    /\ \E cap \in SumCaps :
          HashCalled("HMACAESTruncated", HMACAESTruncated(aKey, aBuf, cap),
                     AESKeyLength)

NextHash ==
    \/ CallHMAC
    \/ CallHMACTruncated
    \/ CallHMACAESTruncated

SpecHash == InitHash /\ [][NextHash]_vars

----------------------------------------------------------------------------
(* Properties.                                                             *)

\* Thread t returns from its call in this step.
Returns(t) == pc[t] # "done" /\ pc'[t] = "done"

\* Errors of the steps that precede the lifecycle checks and that come from
\* the environment of the call (configuration, storage).
EnvErrors == {"ErrConf", "ErrKeyStore"}

\* Errors of the configuration and key-store steps of a call.
StepErrors == EnvErrors \cup {"ErrKeyStoreAlreadyInitialized"}

\* C1: a lifecycle flag changes only in the last step of a register (resp.
\* init) call, the step that returns nil; so a call that returns an error
\* leaves its flag as it found it, and a call that returns nil has set its
\* flag from false to true.
C1_FlagsFlipOnlyOnFullSuccess ==
    [][ /\ (isRegistered' # isRegistered) =>
              \E t \in Threads : /\ At(t, "register", "set")
                                 /\ Returns(t)
                                 /\ err'[t] = "nil"
                                 /\ isRegistered'
        /\ (isInitialized' # isInitialized) =>
              \E t \in Threads : /\ At(t, "init", "set")
                                 /\ Returns(t)
                                 /\ err'[t] = "nil"
                                 /\ isInitialized'
        /\ \A t \in Threads :
              (Returns(t) /\ err'[t] = "nil") =>
                 /\ (op[t] = "register") => (~isRegistered /\ isRegistered')
                 /\ (op[t] = "init") => (~isInitialized /\ isInitialized')
      ]_vars

\* C1 witness: a register call has failed in its hook, after the enrollment
\* succeeded, and the node is not registered.
C1_Witness ==
    \E t \in Threads : /\ pc[t] = "done"
                       /\ op[t] = "register"
                       /\ err[t] = "ErrHook"
                       /\ enrollCert # 0
                       /\ ~isRegistered

\* C2: a register call on a registered node returns ErrAlreadyRegistered
\* (unless its configuration or its storage fails), and no step of it
\* enrolls with the CA, runs the hook or changes the stored enrollment
\* material.
C2_SecondRegisterAlreadyRegistered ==
    [][ \A t \in Threads :
           (op[t] = "register" /\ isRegistered /\ pc[t] # "done") =>
              /\ caCalls' = caCalls
              /\ hookCalls' = hookCalls
              /\ enrollCert' = enrollCert
              /\ (Returns(t) /\ err'[t] \notin EnvErrors) =>
                    err'[t] = "ErrAlreadyRegistered"
      ]_vars

C4_ConcurrentInitOnce ==
    /\ engineBuilt <= 1
    /\ \A t, u \in Threads :
          (/\ pc[t] = "done" /\ op[t] = "init" /\ err[t] \notin StepErrors
           /\ pc[u] = "done" /\ op[u] = "init" /\ err[u] \notin StepErrors)
             => err[t] = err[u]

\* C5: any two calls of getSecHelper that have returned have returned the
\* same helper and the same error.
C5_SameOutcomeForEveryCaller ==
    \A c, d \in Callers :
       (spc[c] = "done" /\ spc[d] = "done") =>
          (secHelper[c] = secHelper[d] /\ secErr[c] = secErr[d])

\* C6: over all the calls of getSecHelper there is at most one Register*
\* call and at most one Init* call, the Init* call after the Register* call;
\* once the attempt is over no call is added.
C6_AtMostOneAttempt ==
    /\ cryptoLog \in {<<>>,
                      <<"RegisterPeer">>, <<"RegisterPeer", "InitPeer">>,
                      <<"RegisterValidator">>,
                      <<"RegisterValidator", "InitValidator">>}
    /\ onceDone => \A c \in Callers : spc[c] \notin {"f", "init"}

\* C6 witness: two calls have returned after one attempt that failed in
\* Register*.
C6_Witness ==
    \E c, d \in Callers : /\ c # d
                          /\ spc[c] = "done"
                          /\ spc[d] = "done"
                          /\ Len(cryptoLog) = 1

\* C7: isRegistered and isInitialized never go from true to false (so each
\* goes from false to true at most once).
C7_FlagsMonotonic ==
    [][ /\ isRegistered => isRegistered'
        /\ isInitialized => isInitialized'
      ]_vars

\* C7 witness: close has returned on a node that is registered and
\* initialized.
C7_Witness ==
    \E t \in Threads : /\ pc[t] = "done"
                       /\ op[t] = "close"
                       /\ ksClosed
                       /\ isRegistered
                       /\ isInitialized

C10_KeyStoreAlreadyInitializedNonFatal ==
    [][ \A t \in Threads :
           (/\ At(t, "register", "kserr")
            /\ err[t] = "ErrKeyStoreAlreadyInitialized"
            /\ caCalls >= 1
            /\ ~isRegistered
            /\ pc'[t] # pc[t]) => pc'[t] = "check"
      ]_vars

\* C11: a register or init call whose key-store step has failed with
\* ErrKeyStoreAlreadyInitialized returns that very error in its next step,
\* with nothing of the node changed; and a call returns that error from
\* nowhere but the check that follows the key-store step.
C11_KeyStoreAlreadyInitializedPropagates ==
    [][ \A t \in Threads :
           /\ (/\ op[t] \in {"register", "init"}
               /\ pc[t] = "kserr"
               /\ err[t] = "ErrKeyStoreAlreadyInitialized"
               /\ pc'[t] # pc[t]) =>
                 /\ pc'[t] = "done"
                 /\ err'[t] = "ErrKeyStoreAlreadyInitialized"
                 /\ UNCHANGED nodeVars
           /\ (Returns(t) /\ err'[t] = "ErrKeyStoreAlreadyInitialized") =>
                 pc[t] = "kserr"
      ]_vars

\* C11 witness: a register call on a node that is neither registered nor
\* initialized has returned ErrKeyStoreAlreadyInitialized.
C11_Witness ==
    \E t \in Threads : /\ pc[t] = "done"
                       /\ op[t] = "register"
                       /\ err[t] = "ErrKeyStoreAlreadyInitialized"
                       /\ ~isRegistered
                       /\ ~isInitialized

\* C12: no step of a register call on an initialized node enrolls with the
\* CA, and the call returns ErrAlreadyRegistered when the node is registered
\* and ErrAlreadyInitialized when it is not (unless its configuration or its
\* storage fails).
C12_RegisterOnInitializedFailsFast ==
    [][ \A t \in Threads :
           (op[t] = "register" /\ isInitialized /\ pc[t] # "done") =>
              /\ caCalls' = caCalls
              /\ (Returns(t) /\ err'[t] \notin EnvErrors) =>
                    err'[t] = IF isRegistered THEN "ErrAlreadyRegistered"
                              ELSE "ErrAlreadyInitialized"
      ]_vars

\* The positions of a register call after its CA enrollment has succeeded.
PostEnroll == {"hook", "set"}

\* C13: of the register calls that run concurrently at most one performs the
\* CA enrollment step: no call enters nodeRegister while another register
\* call is past its own.
C13_ConcurrentRegisterOnce ==
    [][ \A t \in Threads :
           (At(t, "register", "engine") /\ caCalls' # caCalls) =>
              ~ \E u \in Threads \ {t} :
                   op[u] = "register" /\ pc[u] \in PostEnroll
      ]_vars

\* C14: the type of a registered or initialized node never changes.
C14_TypeImmutableOnceBound ==
    [][ (isRegistered \/ isInitialized) => eType' = eType ]_vars

\* C15: a register or init call made after close fails (with
\* ErrNotInitialized): no such call returns nil.
C15_ClosedNodeUnusable ==
    [][ \A t \in Threads :
           (closed /\ op[t] \in {"register", "init"} /\ Returns(t)) =>
              err'[t] # "nil"
      ]_vars

\* The key is one that aes.NewCipher accepts.
ValidKey == Len(aKey) \in KeySizes

\* C16: PKCS7UnPadding applied to the result of PKCS7Padding returns the
\* buffer that was padded, and no error.
C16_PKCS7RoundTrip ==
    (aHist = <<"PKCS7Padding", "PKCS7UnPadding">>) =>
       (aErr = "nil" /\ aBuf = aMsg)

\* C16 witness: the empty buffer has been padded and unpadded.
C16_Witness ==
    /\ aHist = <<"PKCS7Padding", "PKCS7UnPadding">>
    /\ aMsg = <<>>
    /\ aErr = "nil"

\* C17: PKCS7Padding(b) is b followed by n = 16 - (len(b) mod 16) bytes of
\* value n; its length is a positive multiple of 16 greater than len(b), and
\* a b whose length is a multiple of 16 gets 16 bytes of value 16.
C17_PaddingShape ==
    (aHist = <<"PKCS7Padding">>) =>
       LET n == BlockSize - (Len(aMsg) % BlockSize)
       IN  /\ aErr = "nil"
           /\ Len(aBuf) = Len(aMsg) + n
           /\ \A i \in 1..Len(aMsg) : aBuf[i] = aMsg[i]
           /\ \A i \in (Len(aMsg) + 1)..Len(aBuf) : aBuf[i] = n
           /\ Len(aBuf) > 0
           /\ Len(aBuf) % BlockSize = 0
           /\ Len(aBuf) > Len(aMsg)
           /\ (Len(aMsg) % BlockSize = 0) =>
                 SubSeq(aBuf, Len(aMsg) + 1, Len(aBuf)) = Repeat(BlockSize, BlockSize)

\* C17 witness: a buffer of one block has been padded to two blocks.
C17_Witness ==
    /\ aHist = <<"PKCS7Padding">>
    /\ Len(aMsg) = BlockSize
    /\ Len(aBuf) = 2 * BlockSize

\* C18: PKCS7UnPadding never aborts; on a buffer whose last byte p is 0,
\* more than 16, or not the value of every one of the last p bytes it
\* returns the invalid-padding error, and else the buffer without its last p
\* bytes.
C18_UnPaddingTotal ==
    (aHist = <<"PKCS7UnPadding">>) =>
       /\ aErr # "panic"
       /\ Len(aMsg) > 0 =>
             LET length == Len(aMsg)
                 p == aMsg[length]
                 from == IF length - p + 1 < 1 THEN 1 ELSE length - p + 1
             IN  IF \/ p = 0
                    \/ p > BlockSize
                    \/ \E i \in from..length : aMsg[i] # p
                 THEN aErr = "ErrInvalidPadding" /\ aBuf = <<>>
                 ELSE aErr = "nil" /\ aBuf = SubSeq(aMsg, 1, length - p)

\* C19: CBCPKCS7Decrypt with a valid key never aborts, and on a ciphertext
\* that is too short, not block aligned or an IV block only it returns an
\* error and no plaintext.
C19_DecryptReturnsError ==
    (aHist = <<"CBCPKCS7Decrypt">> /\ ValidKey) =>
       /\ aErr # "panic"
       /\ (Len(aMsg) <= BlockSize \/ Len(aMsg) % BlockSize # 0) =>
             (aErr # "nil" /\ aBuf = <<>>)

\* C20: with a valid key CBCPKCS7Encrypt fails only when the IV cannot be
\* drawn (never for the length of the message) and returns the IV and the
\* padded message's blocks; CBCPKCS7Decrypt applied to its result returns
\* the message, and no error.
C20_PaddedCBCRoundTrip ==
    ValidKey =>
       /\ (aHist = <<"CBCPKCS7Encrypt">>) =>
             /\ aErr \in {"nil", "ErrRand"}
             /\ (aErr = "nil") =>
                   Len(aBuf) = BlockSize + Len(aMsg)
                                  + (BlockSize - (Len(aMsg) % BlockSize))
       /\ (aHist = <<"CBCPKCS7Encrypt", "CBCPKCS7Decrypt">>) =>
             (aErr = "nil" /\ aBuf = aMsg)

\* C20 witness: a message of more than one block, not block aligned, has
\* been encrypted and decrypted.
C20_Witness ==
    /\ aHist = <<"CBCPKCS7Encrypt", "CBCPKCS7Decrypt">>
    /\ ValidKey
    /\ Len(aMsg) > BlockSize
    /\ Len(aMsg) % BlockSize # 0
    /\ aBuf = aMsg

\* C21: with a valid key, CBCDecrypt applied to the result of CBCEncrypt
\* returns the plaintext that was encrypted, and no error, whatever IV was
\* drawn.
C21_CBCRoundTrip ==
    (aHist = <<"CBCEncrypt", "CBCDecrypt">> /\ ValidKey) =>
       (aErr = "nil" /\ aBuf = aMsg)

\* C21 witness: a plaintext of two blocks has been encrypted under an IV
\* that is not all zeros, and decrypted.
C21_Witness ==
    /\ aHist = <<"CBCEncrypt", "CBCDecrypt">>
    /\ Len(aMsg) = 2 * BlockSize
    /\ aIV # Repeat(0, BlockSize)
    /\ aBuf = aMsg

\* C22: CBCEncrypt returns an error and no ciphertext for a plaintext whose
\* length is no multiple of 16; for one whose length is, it returns (with a
\* valid key and an IV drawn) no error, and what it returns has length
\* 16 + len(plaintext), begins with the IV drawn and continues with the
\* plaintext encrypted under that IV.
C22_CBCEncryptShape ==
    (aHist = <<"CBCEncrypt">>) =>
       /\ (Len(aMsg) % BlockSize # 0) =>
             (aErr = "ErrPlaintextNotMultiple" /\ aBuf = <<>>)
       /\ (Len(aMsg) % BlockSize = 0 /\ ValidKey /\ aIV # <<>>) => aErr = "nil"
       /\ (Len(aMsg) % BlockSize = 0 /\ aErr = "nil") =>
             /\ Len(aBuf) = BlockSize + Len(aMsg)
             /\ Len(aIV) = BlockSize
             /\ SubSeq(aBuf, 1, BlockSize) = aIV
             /\ CBCDecrypterCryptBlocks(NewCipher(aKey).k, aIV,
                                        SubSeq(aBuf, BlockSize + 1, Len(aBuf)))
                   = aMsg

\* C22 witness: a plaintext of one block has been encrypted under an IV that
\* is not all zeros.
C22_Witness ==
    /\ aHist = <<"CBCEncrypt">>
    /\ aErr = "nil"
    /\ Len(aMsg) = BlockSize
    /\ aIV # Repeat(0, BlockSize)

\* C23: CBCDecrypt with a valid key returns the too-short error for fewer
\* than 16 bytes, the not-a-multiple error for 16 bytes or more whose length
\* less 16 is no multiple of 16, and else the len(src) - 16 bytes that the
\* bytes after the first 16 decrypt to with the first 16 as IV.
C23_CBCDecryptShape ==
    (aHist = <<"CBCDecrypt">> /\ ValidKey) =>
       IF Len(aMsg) < BlockSize
       THEN aErr = "ErrCiphertextTooShort" /\ aBuf = <<>>
       ELSE IF (Len(aMsg) - BlockSize) % BlockSize # 0
       THEN aErr = "ErrCiphertextNotMultiple" /\ aBuf = <<>>
       ELSE /\ aErr = "nil"
            /\ Len(aBuf) = Len(aMsg) - BlockSize
            /\ CBCEncrypterCryptBlocks(NewCipher(aKey).k,
                                       SubSeq(aMsg, 1, BlockSize), aBuf)
                  = SubSeq(aMsg, BlockSize + 1, Len(aMsg))

\* C23 witness: a ciphertext of the IV alone has been decrypted to the
\* empty plaintext.
C23_Witness ==
    /\ aHist = <<"CBCDecrypt">>
    /\ ValidKey
    /\ Len(aMsg) = BlockSize
    /\ aErr = "nil"
    /\ aBuf = <<>>

\* C24: a call of a primitive leaves the key and the bytes of the buffer it
\* was passed as they were before the call.
C24_ArgumentsUnchanged ==
    [][ (aHist' # aHist) => (aArg' = aBuf /\ aKey' = aKey) ]_vars

\* C25: HMACTruncated called with a truncation n that does not satisfy
\* 0 < n <= len(HMAC(key, x)) returns an invalid-parameter error.
C25_TruncationChecked ==
    (/\ aHist = <<"HMACTruncated">>
     /\ ~ (0 < aTrunc /\ aTrunc <= Len(HMAC(aKey, aMsg)))) =>
       aErr = "ErrInvalidParameter"

\* C26: HMACTruncated called with a truncation n, 0 < n <= len(HMAC(key, x)),
\* returns n bytes, the first n of HMAC(key, x).
C26_TruncatedIsPrefix ==
    (/\ aHist = <<"HMACTruncated">>
     /\ 0 < aTrunc
     /\ aTrunc <= Len(HMAC(aKey, aMsg))) =>
       /\ aErr = "nil"
       /\ Len(aBuf) = aTrunc
       /\ aBuf = SubSeq(HMAC(aKey, aMsg), 1, aTrunc)

\* C26 witness: a tag has been truncated to fewer bytes than it has, and to
\* more than one.
C26_Witness ==
    /\ aHist = <<"HMACTruncated">>
    /\ 1 < aTrunc
    /\ aTrunc < Len(HMAC(aKey, aMsg))
    /\ aErr = "nil"

\* The positions of a register or init call, in the order of the code:
\* configuration, key store and its check, lifecycle check, enrollment or
\* engine, hook, flag.
StepOrder == <<"conf", "ks", "kserr", "check", "engine", "hook", "set", "done">>

Pos(l) == CHOOSE i \in 1..Len(StepOrder) : StepOrder[i] = l

\* C27: every step of a register or init call goes to the next position of
\* the order or returns; the hook position is entered only from a successful
\* enrollment (resp. engine) step; the hook is invoked only at the hook
\* position, once, and when it is nil the call goes on to set the flag with
\* no error.
C27_StepsInOrder ==
    [][ /\ \A t \in Threads :
              (/\ op[t] \in {"register", "init"}
               /\ pc[t] \notin {"idle", "done"}
               /\ pc'[t] # pc[t]) =>
                 /\ pc'[t] \in {StepOrder[Pos(pc[t]) + 1], "done"}
                 /\ (pc'[t] = "hook") =>
                       /\ pc[t] = "engine"
                       /\ IF op[t] = "register"
                          THEN caCalls' = caCalls + 1 /\ enrollCert' = caCalls'
                          ELSE /\ engineCalls' = engineCalls + 1
                               /\ engineBuilt' = engineBuilt + 1
                 /\ (pc[t] = "hook" /\ hook[t] = "nil") =>
                       (pc'[t] = "set" /\ err'[t] = "nil")
                 /\ (pc[t] = "hook" /\ hook[t] # "nil") =>
                       hookCalls' = hookCalls + 1
        /\ (hookCalls' # hookCalls) =>
              \E t \in Threads : /\ op[t] \in {"register", "init"}
                                 /\ pc[t] = "hook"
                                 /\ hook[t] # "nil"
                                 /\ pc'[t] # pc[t]
                                 /\ hookCalls' = hookCalls + 1
      ]_vars

\* C27 witness: a register call without a hook has returned nil, no hook
\* having been invoked.
C27_Witness ==
    \E t \in Threads : /\ pc[t] = "done"
                       /\ op[t] = "register"
                       /\ hook[t] = "nil"
                       /\ err[t] = "nil"
                       /\ isRegistered
                       /\ hookCalls = 0

\* The calls getSecHelper may have made to the crypto package, by role.
RoleCalls ==
    IF validatorEnabled
    THEN <<"RegisterValidator", "InitValidator">>
    ELSE <<"RegisterPeer", "InitPeer">>

\* C30: the calls made to the crypto package are a prefix of Register, Init
\* of the configured role, and none with security disabled; an Init call is
\* made only by a caller whose Register call has just returned nil; with
\* security disabled a returning caller has a nil helper and a nil error.
C30_RegisterThenInitOfOneRole ==
    /\ [](/\ \E n \in 0..2 : cryptoLog = SubSeq(RoleCalls, 1, n)
          /\ ~securityEnabled =>
                /\ cryptoLog = <<>>
                /\ \A c \in Callers :
                      spc[c] = "done" =>
                         (secHelper[c] = "nil" /\ secErr[c] = "nil"))
    /\ [][ (Len(cryptoLog') = 2 /\ Len(cryptoLog) < 2) =>
              /\ cryptoLog = <<RoleCalls[1]>>
              /\ \E c \in Callers : /\ spc[c] = "init"
                                    /\ secErr[c] = "nil"
                                    /\ spc'[c] # spc[c]
         ]_vars

\* C30 witness: a validator with security enabled has been registered and
\* initialized, and the caller has the helper.
C30_Witness ==
    /\ securityEnabled
    /\ validatorEnabled
    /\ cryptoLog = <<"RegisterValidator", "InitValidator">>
    /\ \E c \in Callers : /\ spc[c] = "done"
                          /\ secHelper[c] = "peer"
                          /\ secErr[c] = "nil"

\* C28: serve writes the development-mode overrides in its first step, which
\* caches nothing; from its CacheConfiguration step on, until it listens,
\* the cache is populated and in development mode ValidatorEnabled() is
\* true; when CacheConfiguration fails serve returns that error at that
\* step; a listener is opened only by the listen step of a serve that has
\* not returned an error.
C28_OverridesBeforeCacheThenListen ==
    /\ []((servePc \in {"endpoint", "listen"}) =>
            /\ configurationCached
            /\ serveErr = "nil"
            /\ chaincodeDevMode =>
                  /\ validatorEnabled
                  /\ viper["peer.validator.consensus"] = "noops"
                  /\ viper["chaincode.mode"] = DevModeUserRunsChaincode)
    /\ []((serveErr # "nil") => (servePc = "returned" /\ lis = <<>>))
    /\ [][ /\ (servePc = "devmode" /\ servePc' # servePc) =>
                /\ servePc' = "cache"
                /\ UNCHANGED peerCacheVars
                /\ chaincodeDevMode => GetBool("peer.validator.enabled")'
           /\ (servePc = "cache" /\ servePc' # servePc) =>
                /\ configurationCached'
                /\ chaincodeDevMode => validatorEnabled'
                /\ IF localAddressError' # "nil" \/ peerEndpointError' # "nil"
                   THEN /\ servePc' = "returned"
                        /\ serveErr' \in {localAddressError', peerEndpointError'}
                        /\ serveErr' # "nil"
                        /\ lis' = <<>>
                   ELSE servePc' = "endpoint"
           /\ (lis' # lis) => (servePc = "listen" /\ serveErr = "nil")
         ]_vars

\* C28 witness: in development mode, over a configuration that does not
\* enable the validator, serve has cached the configuration and listens.
C28_Witness ==
    /\ chaincodeDevMode
    /\ servePc = "listening"
    /\ Len(lis) = 1
    /\ validatorEnabled
    /\ got = <<>>
    /\ nSet = 0


\* The cached getters of package peer, and the package variables each
\* returns.
PeerGetters == {"GetLocalAddress", "GetPeerEndpoint",
                "SyncStateSnapshotChannelSize", "SyncStateDeltasChannelSize",
                "SyncBlocksChannelSize", "ValidatorEnabled", "SecurityEnabled"}

Cached ==
    [getter \in PeerGetters \cup {"TLSEnabled"} |->
    CASE getter = "GetLocalAddress" -> <<localAddress, localAddressError>>
      [] getter = "GetPeerEndpoint" -> <<peerEndpoint, peerEndpointError>>
      [] getter = "SyncStateSnapshotChannelSize" ->
            <<syncStateSnapshotChannelSize>>
      [] getter = "SyncStateDeltasChannelSize" -> <<syncStateDeltasChannelSize>>
      [] getter = "SyncBlocksChannelSize" -> <<syncBlocksChannelSize>>
      [] getter = "ValidatorEnabled" -> <<validatorEnabled>>
      [] getter = "SecurityEnabled" -> <<securityEnabled>>
      [] getter = "TLSEnabled" -> <<tlsEnabled>>]

\* The step is a call of CacheConfiguration of package peer, from serve or
\* from outside.
ExplicitPeerCache ==
    \/ servePc = "cache" /\ servePc' # servePc
    \/ got' # <<>> /\ got'[1] = "CacheConfiguration"

\* C29: a getter called on an unpopulated cache populates it from the
\* configuration and returns the new values; a getter called on a populated
\* cache returns the cached values and leaves the cache alone, whatever the
\* configuration holds by then; the cached values change only in a call of
\* CacheConfiguration or in the populating getter call, and a change of the
\* configuration leaves them alone.  The same for the cache of package comm.
C29_LazyThenSnapshot ==
    [][ /\ (got' # <<>> /\ got'[1] \in PeerGetters) =>
              /\ Tail(got') = Cached'[got'[1]]
              /\ IF configurationCached
                 THEN UNCHANGED peerCacheVars
                 ELSE PeerCacheConfiguration
        /\ (got' # <<>> /\ got'[1] = "TLSEnabled") =>
              /\ Tail(got') = Cached'["TLSEnabled"]
              /\ IF commConfigurationCached
                 THEN UNCHANGED commCacheVars
                 ELSE CommCacheConfiguration
        /\ (peerCacheVars' # peerCacheVars) =>
              /\ PeerCacheConfiguration
              /\ \/ ExplicitPeerCache
                 \/ /\ ~configurationCached
                    /\ got' # <<>>
                    /\ got'[1] \in PeerGetters
                    /\ servePc' = servePc
        /\ (commCacheVars' # commCacheVars) =>
              /\ CommCacheConfiguration
              /\ got' # <<>>
              /\ \/ got'[1] = "comm.CacheConfiguration"
                 \/ got'[1] = "TLSEnabled" /\ ~commConfigurationCached
        /\ configurationCached => configurationCached'
        /\ commConfigurationCached => commConfigurationCached'
      ]_vars

\* C29 witness: the validator flag was cached as false, the configuration
\* then changed to true, and ValidatorEnabled() has just returned the cached
\* false.
C29_Witness ==
    /\ configurationCached
    /\ got = <<"ValidatorEnabled", FALSE>>
    /\ GetBool("peer.validator.enabled")
    /\ ~validatorEnabled
    /\ nSet > 0

\* C31: a call of CacheConfiguration whose address detection fails returns
\* the error and leaves the cache populated, holding the error twice and a
\* nil endpoint; from then on GetLocalAddress and GetPeerEndpoint return the
\* stored error and recompute nothing, whatever the configuration holds by
\* then, and the stored error changes only in a call of CacheConfiguration.
C31_FailedCacheIsPopulated ==
    /\ []((localAddressError # "nil") =>
            /\ configurationCached
            /\ localAddress = <<>>
            /\ peerEndpoint = <<>>
            /\ peerEndpointError = localAddressError)
    /\ [][ /\ (ExplicitPeerCache /\ getLocalAddress.err # "nil") =>
                /\ configurationCached'
                /\ localAddressError' = getLocalAddress.err
                /\ (servePc = "cache") =>
                      (servePc' = "returned" /\ serveErr' = localAddressError')
                /\ (servePc # "cache") => got'[2] = localAddressError'
           /\ (/\ localAddressError # "nil"
               /\ got' # <<>>
               /\ got'[1] \in {"GetLocalAddress", "GetPeerEndpoint"}) =>
                /\ UNCHANGED peerCacheVars
                /\ got'[3] = localAddressError
                /\ got'[2] = <<>>
           /\ (localAddressError # "nil" /\ localAddressError' = "nil") =>
                ExplicitPeerCache
         ]_vars

\* C31 witness: address detection failed when the configuration was cached;
\* the address has been put right since, and GetPeerEndpoint has just
\* returned the stored error and a nil endpoint.
C31_Witness ==
    /\ configurationCached
    /\ got = <<"GetPeerEndpoint", <<>>, "ErrAutoDetect">>
    /\ localAddressError = "ErrAutoDetect"
    /\ getLocalAddress.err = "nil"

\* C32: whenever the cache is populated and holds an endpoint, the type of
\* the endpoint is VALIDATOR exactly when validatorEnabled is true, and its
\* address is localAddress.
C32_CachedConfigurationConsistent ==
    (configurationCached /\ peerEndpoint # <<>>) =>
        /\ (peerEndpoint[1].Type = "VALIDATOR") <=> validatorEnabled
        /\ peerEndpoint[1].Address = localAddress

\* serve has returned from its final wait.
ReturnedFromWait == servePc = "returned" /\ serveErr # "ErrWritePid"

\* C33, as stated: when the first event came with serve in its final wait,
\* serve returns nil when that was the signal, and the wrapped error when
\* that was the gRPC server exiting with an error.
C33_FirstEventDecides ==
    (ReturnedFromWait /\ firstAt = "wait") =>
        /\ (firstEvent = "signal") => serveErr = "nil"
        /\ (firstEvent = "grpcError") =>
              serveErr = "grpc server exited with error"

\* C33, amended: serve leaves its final wait only by receiving from a
\* goroutine blocked on the channel, so not before a signal was received or
\* the gRPC server exited; it returns the value of the goroutine that
\* reached its send first, nil from the signal goroutine and grpcErr from
\* the gRPC goroutine; and once it waits and a signal was received or the
\* gRPC server exited, it returns.
C33_ReturnsFirstSend ==
    /\ [](ReturnedFromWait =>
            /\ firstEvent # "none"
            /\ \/ sigPc = "done" /\ grpcPc # "done" /\ serveErr = "nil"
               \/ grpcPc = "done" /\ sigPc # "done" /\ serveErr = grpcErr)
    /\ [][ (servePc = "wait" /\ servePc' # servePc) =>
              /\ serve # <<>>
              /\ servePc' = "returned"
              /\ serveErr' = Head(serve)[2]
         ]_vars
    /\ ((servePc = "wait" /\ firstEvent # "none") ~> (servePc = "returned"))

\* C33 witness: the signal was received first and serve has returned nil
\* from its final wait, the gRPC server still serving.
C33_Witness ==
    /\ ReturnedFromWait
    /\ firstEvent = "signal"
    /\ firstAt = "wait"
    /\ sigPc = "done"
    /\ grpcPc = "serving"
    /\ serveErr = "nil"

====
